---- MODULE Spec2Model ----
(***************************************************************************)
(* Model of UniversalTunnelManager (src/config/manager_frontend.py): the   *)
(* persisted state document, the per-tunnel ingress config files, the      *)
(* provider registry reached through the cloudflared binary, the autostart *)
(* registrations and the temporary tunnel processes.                       *)
(*                                                                         *)
(* Every method of the manager is an operator from a world record W (the   *)
(* host: state document, files, registry, processes, and the manager       *)
(* instance's own fields) to the world after the call, so that a method    *)
(* which calls other methods is the composition of their operators.  The   *)
(* outcomes of external commands are the fields of an input record E.      *)
(***************************************************************************)
EXTENDS Integers, Sequences, FiniteSets, TLC

VARIABLES
    state,      \* the JSON state document: tunnels, current_tunnel, last_updated
    files,      \* config directory: file name -> parsed YAML config (absent = no file)
    creds,      \* credential files (names) present in the config directory
    registry,   \* the provider's registry: tunnel name -> provider id
    mgr,        \* the manager instance: tunnel_name, config_file, auto_start_on_create
    enabled,    \* tunnel names with an OS-level autostart registration
    artifacts,  \* tunnel names with a generated unit file / script / plist / batch file
    running,    \* tunnel names with a manually launched "tunnel run" process
    alive,      \* live temporary-tunnel children: process id -> command line
    now,        \* the wall clock, in seconds
    platform,   \* the autostart strategy of this host
    last,       \* the last call: its name, arguments, return value, commands run
    inst        \* manager instances of other processes, each inside a call on the files

vars == <<state, files, creds, registry, mgr, enabled, artifacts, running,
          alive, now, platform, last, inst>>

---------------------------------------------------------------------------
(* Bounds of the model *)

MaxTime == 1
MaxPid == 2
MaxNoise == 1
MaxLines == 2

(* Constants of the program *)
MaxRetries == 3
Timeout == 30
PollsPerSecond == 2

Names == {"demo", "legacy"}
Domains == {"app.example.com", "api.example.com"}
Hosts == {"svc"}
Ports == {3000, 8080}
Ids == {"id1", "id2"}
Pids == {ToString(i) : i \in 1..MaxPid}
TempPorts == {8080}
Subdomains == {"demo"}
NoiseLine == "INF Starting tunnel"
Lines == {NoiseLine,
          "INF |  https://a.trycloudflare.com  |",
          "INF https://b.trycloudflare.com",
          "INF see trycloudflare.com"}
Platforms == {"systemd", "cron", "launchagent", "taskscheduler"}

NULL == "None"

---------------------------------------------------------------------------
(* Python dicts and strings *)

EmptyDict == [k \in {} |-> NULL]
Get(d, k, default) == IF k \in DOMAIN d THEN d[k] ELSE default
Put(d, k, v) == [x \in (DOMAIN d) \cup {k} |-> IF x = k THEN v ELSE d[x]]
Update(d, info) ==
    [x \in (DOMAIN d) \cup (DOMAIN info) |-> IF x \in DOMAIN info THEN info[x] ELSE d[x]]
Del(d, k) == [x \in (DOMAIN d) \ {k} |-> d[x]]

StartsWith(s, p) == Len(s) >= Len(p) /\ SubSeq(s, 1, Len(p)) = p
EndsWith(s, p) == Len(s) >= Len(p) /\ SubSeq(s, Len(s) - Len(p) + 1, Len(s)) = p
Contains(s, p) == \E i \in 0..(Len(s) - Len(p)) : SubSeq(s, i + 1, i + Len(p)) = p

---------------------------------------------------------------------------
(* Names of files, units and command lines *)

ConfigName(name) == "config-" \o name \o ".yml"
GenericConfig == "config.yml"
PlainName(name) == name \o ".yml"
CredName(id) == id \o ".json"
RunCmdLine(name) == " --config " \o ConfigName(name) \o " run " \o name
ListRow(name, id) == id \o " " \o name
CronLine(name) == "@reboot start-tunnel-" \o name \o ".sh"
AgentLabel(name) == "com.user.cloudflare.tunnel." \o name

ServiceUrlNoScheme(host, port) == host \o ":" \o ToString(port)

ServiceUrl(host, port) == "http://" \o host \o ":" \o ToString(port)
CatchAll == [service |-> "http_status:404"]
HostRule(domain, service) == [hostname |-> domain, service |-> service]
Route(domain, service) == [domain |-> domain, service |-> service]

---------------------------------------------------------------------------
(* The world record *)

World ==
    [state |-> state, files |-> files, creds |-> creds, registry |-> registry,
     mgr |-> mgr, enabled |-> enabled, artifacts |-> artifacts,
     running |-> running, alive |-> alive, now |-> now, platform |-> platform,
     cmds |-> <<>>, ret |-> NULL]

Ran(W, cmd) == [W EXCEPT !.cmds = Append(@, cmd)]
Returns(W, v) == [W EXCEPT !.ret = v]

---------------------------------------------------------------------------
(* State store *)

LoadState(W) == W.state

SaveState(W, st) == [W EXCEPT !.state = Put(st, "last_updated", W.now)]

NewRecord(W, name) ==
    [created_at |-> W.now, config_file |-> ConfigName(name), routes |-> <<>>,
     auto_start |-> FALSE, status |-> "unknown"]

RegisterTunnelOverwrites(W, name) ==
    LET st == W.state
    IN  [W EXCEPT !.state = Put([st EXCEPT !.tunnels = Put(@, name,
                                        [created_at |-> W.now, config_file |-> ConfigName(name),
                                         routes |-> <<>>, auto_start |-> FALSE,
                                         status |-> "unknown"]),
                                    !.current_tunnel = name],
                                "last_updated", W.now)]

RegisterTunnelAlone(W, name) ==
    SaveState(W, [LoadState(W) EXCEPT !.tunnels = Put(EmptyDict, name, NewRecord(W, name)),
                                      !.current_tunnel = name])

RegisterTunnel(W, name) ==
    LET st == LoadState(W)
        tunnels == IF name \in DOMAIN st.tunnels THEN st.tunnels
                   ELSE Put(st.tunnels, name, NewRecord(W, name))
    IN  SaveState(W, [st EXCEPT !.tunnels = tunnels, !.current_tunnel = name])

UpdateTunnelInfoAlwaysSaves(W, name, info) ==
    LET st == LoadState(W)
    IN  IF name \in DOMAIN st.tunnels
        THEN SaveState(W, [st EXCEPT !.tunnels = Put(@, name, Update(st.tunnels[name], info))])
        ELSE SaveState(W, st)

UpdateTunnelInfo(W, name, info) ==
    LET st == LoadState(W)
    IN  IF name \in DOMAIN st.tunnels
        THEN SaveState(W, [st EXCEPT !.tunnels = Put(@, name, Update(st.tunnels[name], info))])
        ELSE W

UnregisterTunnelKeepsCurrent(W, name) ==
    LET st == LoadState(W)
    IN  IF name \in DOMAIN st.tunnels
        THEN SaveState(W, [st EXCEPT !.tunnels = Del(@, name)])
        ELSE W

UnregisterTunnel(W, name) ==
    LET st == LoadState(W)
    IN  IF name \in DOMAIN st.tunnels
        THEN SaveState(W, [st EXCEPT !.tunnels = Del(@, name),
                                     !.current_tunnel =
                                         IF @ = name THEN NULL ELSE @])
        ELSE W

\* What the state file can hold besides a document of the manager: nothing
\* (no file), text that is not JSON, or a JSON object written by other hands.
Unreadable == {[missing |-> TRUE], [garbled |-> TRUE]}
ForeignDocuments == {EmptyDict, [current_tunnel |-> NULL, last_updated |-> 0]}

DefaultState == [tunnels |-> EmptyDict, current_tunnel |-> NULL]

\* _load_state on any content of the state file: the default when open or
\* json.load raises, else the parsed document as it is.
LoadStateFrom(doc) == IF doc \in Unreadable THEN DefaultState ELSE doc

\* The state-store calls on any content of the state file; state["tunnels"]
\* raises KeyError on a document without that key, which ends the call.
RegisterTunnelFrom(W, name) ==
    IF "tunnels" \notin DOMAIN LoadStateFrom(W.state) THEN Returns(W, "KeyError")
    ELSE RegisterTunnel([W EXCEPT !.state = LoadStateFrom(W.state)], name)

UpdateTunnelInfoFrom(W, name, info) ==
    IF "tunnels" \notin DOMAIN LoadStateFrom(W.state) THEN Returns(W, "KeyError")
    ELSE IF name \in DOMAIN LoadStateFrom(W.state).tunnels
         THEN UpdateTunnelInfo([W EXCEPT !.state = LoadStateFrom(W.state)], name, info)
    ELSE W

UnregisterTunnelFrom(W, name) ==
    IF "tunnels" \notin DOMAIN LoadStateFrom(W.state) THEN Returns(W, "KeyError")
    ELSE IF name \in DOMAIN LoadStateFrom(W.state).tunnels
         THEN UnregisterTunnel([W EXCEPT !.state = LoadStateFrom(W.state)], name)
    ELSE W

UseTunnel(W, name) ==
    LET W1 == [W EXCEPT !.mgr.tunnel_name = name, !.mgr.config_file = ConfigName(name)]
        W2 == RegisterTunnel(W1, name)
        st == LoadState(W2)
    IN  SaveState(W2, [st EXCEPT !.current_tunnel = name])

---------------------------------------------------------------------------
(* Config generator *)

LoadConfig(W) ==
    IF W.mgr.config_file = NULL THEN EmptyDict
    ELSE IF W.mgr.config_file \in DOMAIN W.files THEN W.files[W.mgr.config_file]
    ELSE EmptyDict

SaveConfig(W, config) ==
    IF W.mgr.config_file = NULL THEN W
    ELSE [W EXCEPT !.files = Put(@, W.mgr.config_file, config)]

IsHostRule(r) == "hostname" \in DOMAIN r
HostnameOf(r) == Get(r, "hostname", NULL)
ServiceOf(r) == Get(r, "service", NULL)

GetTunnelId(W, name) ==
    LET n == IF name = NULL THEN W.mgr.tunnel_name ELSE name
    IN  IF n = NULL THEN NULL
        ELSE IF n \in DOMAIN W.registry THEN W.registry[n]
        ELSE NULL

WithoutDomainKeepsAll(ingress, domain) == ingress

\* The ingress rules other than the hostname rule of a domain.
WithoutDomain(ingress, domain) ==
    SelectSeq(ingress, LAMBDA r : HostnameOf(r) # domain)

WithoutCatchAllKeepsAll(ingress) == ingress

\* The ingress rules other than those whose service is the catch-all's.
WithoutCatchAll(ingress) ==
    SelectSeq(ingress, LAMBDA r : ServiceOf(r) # "http_status:404")

\* The route list without the entry of a domain.
RoutesWithout(routes, domain) ==
    SelectSeq(routes, LAMBDA r : r.domain # domain)

RouteFoundAlways(ingress, kept) == TRUE

\* remove_route found a rule to remove: the filtered list is shorter.
RouteFound(ingress, kept) == Len(kept) # Len(ingress)

ConfigRoutes(config) ==
    LET rules == SelectSeq(Get(config, "ingress", <<>>), IsHostRule)
    IN  [i \in 1..Len(rules) |-> Route(rules[i].hostname, rules[i].service)]

---------------------------------------------------------------------------
(* Processes *)

\* The command line of a temporary tunnel's child, after "cloudflared tunnel".
TempCmdLine(port, subdomain) ==
    " --url http://localhost:" \o ToString(port)
        \o (IF subdomain = NULL THEN "" ELSE " --name " \o subdomain)

\* pkill -f "cloudflared.*tunnel.*<name>": every process whose command line,
\* after "cloudflared ... tunnel", contains the name.

KillMatching(W, name) ==
    [Ran(W, <<"pkill", name>>) EXCEPT
        !.running = {n \in @ : ~Contains(RunCmdLine(n), name)},
        !.alive = [p \in {q \in DOMAIN @ : ~Contains(W.alive[q], name)} |-> W.alive[p]]]

\* pkill -9 -f cloudflared: every cloudflared process of the host.
KillAll(W) ==
    [Ran(W, <<"pkill9", "cloudflared">>) EXCEPT !.running = {}, !.alive = EmptyDict]

LaunchRun(W, name) ==
    [Ran(W, <<"run", name>>) EXCEPT !.running = @ \cup {name}]

---------------------------------------------------------------------------
(* Autostart registrar *)

HasSystemdUserSupport(W) == W.platform = "systemd"

CheckAutostartStatus(W) ==
    LET name == W.mgr.tunnel_name
    IN  IF name = NULL THEN FALSE
        ELSE CASE W.platform = "systemd" -> name \in W.enabled
               [] W.platform = "cron" ->
                    \E n \in W.enabled :
                        Contains(CronLine(n), "start-tunnel-" \o name \o ".sh")
               [] W.platform = "launchagent" ->
                    \E n \in W.enabled : Contains(AgentLabel(n), AgentLabel(name))
               [] W.platform = "taskscheduler" -> name \in W.enabled
               [] OTHER -> FALSE

WriteArtifact(W) == [W EXCEPT !.artifacts = @ \cup {W.mgr.tunnel_name}]
Register(W) == [W EXCEPT !.enabled = @ \cup {W.mgr.tunnel_name}]

SetupSystemdUserService(W, E) ==
    IF E.auto_fail = "binary" THEN Returns(W, FALSE)
    ELSE IF E.auto_fail = "register" THEN Returns(WriteArtifact(W), FALSE)
    ELSE IF E.auto_fail = "start" THEN Returns(Register(WriteArtifact(W)), FALSE)
    ELSE Returns(Register(WriteArtifact(W)), TRUE)

SetupCronService(W, E) ==
    LET name == W.mgr.tunnel_name
        W1 == WriteArtifact(W)
        present == \E n \in W.enabled : Contains(CronLine(n), CronLine(name))
    IN  IF E.auto_fail = "binary" THEN Returns(W, FALSE)
        ELSE IF present THEN Returns(W1, TRUE)
        ELSE IF E.auto_fail = "register" THEN Returns(W1, FALSE)
        ELSE IF E.auto_fail = "start" THEN Returns(Register(W1), FALSE)
        ELSE Returns(LaunchRun(KillMatching(Register(W1), name), name), TRUE)

SetupLaunchagentService(W, E) ==
    IF E.auto_fail = "binary" THEN Returns(W, FALSE)
    ELSE IF E.auto_fail = "register" THEN Returns(WriteArtifact(W), FALSE)
    ELSE IF E.auto_fail = "start" THEN Returns(Register(WriteArtifact(W)), FALSE)
    ELSE Returns(Register(WriteArtifact(W)), TRUE)

SetupTaskScheduler(W, E) ==
    IF E.auto_fail = "register" THEN Returns(WriteArtifact(W), FALSE)
    ELSE IF E.auto_fail = "start" THEN Returns(Register(WriteArtifact(W)), FALSE)
    ELSE Returns(Register(WriteArtifact(W)), TRUE)

SetupAutostart(W, E) ==
    IF W.mgr.tunnel_name = NULL THEN Returns(W, FALSE)
    ELSE LET W1 == CASE W.platform = "systemd" -> SetupSystemdUserService(W, E)
                     [] W.platform = "cron" -> SetupCronService(W, E)
                     [] W.platform = "launchagent" -> SetupLaunchagentService(W, E)
                     [] W.platform = "taskscheduler" -> SetupTaskScheduler(W, E)
                     [] OTHER -> Returns(W, FALSE)
         IN  IF W1.ret = TRUE
             THEN Returns(UpdateTunnelInfo(W1, W.mgr.tunnel_name, [auto_start |-> TRUE]), TRUE)
             ELSE W1

Unregister(W) ==
    [W EXCEPT !.enabled = @ \ {W.mgr.tunnel_name}]
RemoveArtifact(W) ==
    [W EXCEPT !.artifacts = @ \ {W.mgr.tunnel_name}]

RemoveAutostart(W, E) ==
    LET name == W.mgr.tunnel_name
        W1 == CASE W.platform = "systemd" ->
                     \* stop and disable run with check=True: an unknown unit raises;
                     \* rm_late: stop and disable succeed and the unit file is
                     \* removed, then the closing daemon-reload fails
                     IF name \in W.enabled \/ name \in W.artifacts
                     THEN IF E.rm_ok THEN Returns(RemoveArtifact(Unregister(W)), TRUE)
                          ELSE IF E.rm_late
                               THEN Returns(RemoveArtifact(Unregister(W)), FALSE)
                          ELSE Returns(W, FALSE)
                     ELSE Returns(W, FALSE)
                [] W.platform = "cron" ->
                     \* success only when a crontab line was filtered out and rewritten
                     LET hit == {n \in W.enabled :
                                    Contains(CronLine(n), "start-tunnel-" \o name \o ".sh")}
                     IN  IF hit # {} /\ E.rm_ok
                         THEN Returns(RemoveArtifact([W EXCEPT !.enabled = @ \ hit]), TRUE)
                         ELSE Returns(RemoveArtifact(W), FALSE)
                [] W.platform = "launchagent" ->
                     Returns(RemoveArtifact(Unregister(W)), TRUE)
                [] W.platform = "taskscheduler" ->
                     IF name \in W.enabled /\ E.rm_ok
                     THEN Returns(Unregister(W), TRUE)
                     ELSE Returns(W, FALSE)
                [] OTHER -> Returns(W, FALSE)
    IN  IF name = NULL THEN Returns(W, FALSE)
        ELSE IF W1.ret = TRUE
             THEN Returns(UpdateTunnelInfo(W1, name, [auto_start |-> FALSE]), TRUE)
             ELSE W1

---------------------------------------------------------------------------
(* Tunnel lifecycle controller *)

\* "cloudflared tunnel list" prints one row per tunnel; create_tunnel looks for
\* the name anywhere in that text.
ListOutputContains(W, name) ==
    \E n \in DOMAIN W.registry : Contains(ListRow(n, W.registry[n]), name)

\* The provider assigns an id no tunnel and no credential file has had.
FreshIds(W) ==
    {id \in Ids : /\ \A n \in DOMAIN W.registry : W.registry[n] # id
                  /\ CredName(id) \notin W.creds}

ProviderCreate(W, name, id) ==
    [Ran(W, <<"create", name>>) EXCEPT !.registry = Put(@, name, id),
                                       !.creds = @ \cup {CredName(id)}]

CreateTunnel(W, tn, sas, E) ==
    LET name == IF tn = NULL THEN W.mgr.tunnel_name ELSE tn
        W1 == UseTunnel(W, name)
        setup == IF sas = NULL THEN W.mgr.auto_start_on_create ELSE sas = "True"
    IN  IF ListOutputContains(W1, name) THEN Returns(W1, TRUE)
        ELSE IF ~E.create_ok \/ FreshIds(W1) = {}
             THEN Returns(Ran(W1, <<"create", name>>), FALSE)
        ELSE LET W2 == ProviderCreate(W1, name, CHOOSE id \in FreshIds(W1) : TRUE)
                 W3 == RegisterTunnel(W2, name)
             IN  IF setup THEN Returns(SetupAutostart(W3, E), TRUE)
                 ELSE Returns(W3, TRUE)

RestartTunnelNever(W, E) == W

RestartTunnel(W, E) ==
    LET name == W.mgr.tunnel_name
    IN  IF name = NULL THEN W
        ELSE IF CheckAutostartStatus(W) /\ HasSystemdUserSupport(W)
             THEN IF E.svc_ok THEN Ran(W, <<"svc-restart", name>>)
                  ELSE LaunchRun(KillMatching(Ran(W, <<"svc-restart", name>>), name), name)
        ELSE LaunchRun(KillMatching(W, name), name)

\* cloudflared tunnel route dns: a failure is caught and only printed.
CreateDnsRecord(W, name, domain, E) ==
    Ran(W, <<IF E.dns_ok THEN "dns" ELSE "dns-failed", name, domain>>)

AddRoute(W, domain, port, host, tn, E) ==
    LET name == IF tn = NULL THEN W.mgr.tunnel_name ELSE tn
        service == ServiceUrl(host, port)
        W1 == IF name # W.mgr.tunnel_name THEN UseTunnel(W, name) ELSE W
        W2 == CreateTunnel(W1, name, NULL, E)
        id == GetTunnelId(W2, name)
        config == Put(LoadConfig(W2), "tunnel", id)
        found == {f \in W2.creds : StartsWith(f, id) /\ EndsWith(f, ".json")}
        config1 == IF found = {} THEN config
                   ELSE Put(config, "credentials-file", CHOOSE f \in found : TRUE)
        ingress == Get(config1, "ingress", <<>>)
        rules == WithoutCatchAll(WithoutDomain(ingress, domain))
                    \o <<HostRule(domain, service), CatchAll>>
        W3 == SaveConfig(W2, Put(config1, "ingress", rules))
        st == LoadState(W3)
        routes == RoutesWithout(Get(st.tunnels[name], "routes", <<>>), domain)
                    \o <<Route(domain, service)>>
        W4 == IF name \in DOMAIN st.tunnels
              THEN UpdateTunnelInfo(W3, name, [routes |-> routes])
              ELSE W3
        W5 == CreateDnsRecord(W4, name, domain, E)
    IN  IF name = NULL THEN Returns(W, FALSE)
        ELSE IF W2.ret # TRUE THEN Returns(W2, FALSE)
        ELSE IF id = NULL THEN Returns(W2, FALSE)
        ELSE Returns(RestartTunnel(W5, E), TRUE)

RemoveRoute(W, domain, tn, E) ==
    LET name == IF tn = NULL THEN W.mgr.tunnel_name ELSE tn
        W1 == [W EXCEPT !.mgr.tunnel_name = name, !.mgr.config_file = ConfigName(name)]
        Restore(X) == [X EXCEPT !.mgr.tunnel_name = W.mgr.tunnel_name,
                                !.mgr.config_file = W.mgr.config_file]
        config == LoadConfig(W1)
        kept == WithoutDomain(config.ingress, domain)
        W2 == SaveConfig(W1, Put(config, "ingress", kept))
        st == LoadState(W2)
        routes == RoutesWithout(Get(st.tunnels[name], "routes", <<>>), domain)
        W3 == IF name \in DOMAIN st.tunnels
              THEN UpdateTunnelInfo(W2, name, [routes |-> routes])
              ELSE W2
    IN  IF name = NULL THEN Returns(W, FALSE)
        ELSE IF "ingress" \notin DOMAIN config THEN Returns(Restore(W1), FALSE)
        ELSE IF ~RouteFound(config.ingress, kept) THEN Returns(Restore(W1), FALSE)
        ELSE Returns(Restore(RestartTunnel(W3, E)), TRUE)

\* cloudflared tunnel delete <name>, answered ok: the registry forgets the
\* tunnel; whether the binary also removes the tunnel's credential file is its
\* own business (removes).
ProviderDelete(W, name, removes) ==
    [W EXCEPT !.registry = Del(@, name),
              !.creds = IF removes /\ name \in DOMAIN W.registry
                        THEN @ \ {CredName(W.registry[name])} ELSE @]

ExhaustedRetriesBreaks(W, old) == Returns(W, TRUE)

\* The retries are used up: give up, the local artifacts stay.
ExhaustedRetries(W, old) ==
    Returns([W EXCEPT !.mgr.tunnel_name = old], FALSE)

\* The retry loop of delete_tunnel; outs[i] is the provider's answer to the
\* i-th delete command.  ret = TRUE: left the loop (deleted), FALSE: returned False.
RECURSIVE DeleteLoop(_, _, _, _, _, _)
DeleteLoop(W, name, old, outs, removes, retry_count) ==
    IF ~(retry_count < MaxRetries) THEN Returns(W, TRUE)
    ELSE LET out == outs[retry_count + 1]
             W1 == Ran(W, <<"delete", name>>)
         IN  IF out = "ok" THEN Returns(ProviderDelete(W1, name, removes), TRUE)
             ELSE IF out = "active"
                  THEN IF retry_count + 1 < MaxRetries
                       THEN DeleteLoop(Ran(KillAll(W1), <<"cleanup", name>>),
                                       name, old, outs, removes, retry_count + 1)
                       ELSE ExhaustedRetries(W1, old)
             ELSE Returns([W1 EXCEPT !.mgr.tunnel_name = old], FALSE)

StopService(W, name) ==
    IF W.platform \in {"systemd", "launchagent", "taskscheduler"}
    THEN Ran(W, <<"svc-stop", name>>)
    ELSE W

RemoveCredentials(W, id) ==
    [W EXCEPT !.creds = {f \in @ : ~(StartsWith(f, id) /\ EndsWith(f, ".json"))}]

DeleteTunnel(W, tn, E) ==
    LET name == IF tn = NULL THEN W.mgr.tunnel_name ELSE tn
        old == W.mgr.tunnel_name
        W1 == UseTunnel(W, name)
        has_autostart == CheckAutostartStatus(W1)
        W2 == KillMatching(W1, name)
        W3 == IF has_autostart THEN StopService(W2, name) ELSE W2
        W4 == Ran(W3, <<"cleanup", name>>)
        W5 == IF has_autostart THEN RemoveAutostart(W4, E) ELSE W4
        W6 == DeleteLoop(W5, name, old, E.del, E.removes, 0)
        W7 == [W6 EXCEPT !.files = Del(@, W6.mgr.config_file)]
        id == GetTunnelId(W7, name)
        W8 == IF id # NULL THEN RemoveCredentials(W7, id) ELSE W7
        W9 == UnregisterTunnel(W8, name)
        W10 == IF old = name
               THEN [W9 EXCEPT !.mgr.tunnel_name = NULL, !.mgr.config_file = NULL]
               ELSE [W9 EXCEPT !.mgr.tunnel_name = old, !.mgr.config_file = ConfigName(old)]
    IN  IF name = NULL THEN Returns(W, FALSE)
        ELSE IF W6.ret # TRUE THEN W6
        ELSE Returns(W10, TRUE)

\* stop_tunnel(tunnel_name); stop_ok: the service command exits with 0 (it runs
\* with check=True). stop_tunnel returns nothing: ret is the message it ends
\* with, or the exception that leaves it.
StopTunnel(W, tn, stop_ok) ==
    LET name == IF tn = NULL THEN W.mgr.tunnel_name ELSE tn
        tunnel_info == Get(LoadState(W).tunnels, name, EmptyDict)
    IN  IF name = NULL THEN Returns(W, "No tunnel specified")
        ELSE IF Get(tunnel_info, "auto_start", FALSE) = TRUE
             THEN IF W.platform \in {"systemd", "launchagent", "taskscheduler"}
                  THEN Returns(Ran(W, <<"svc-stop", name>>),
                               IF stop_ok THEN "Tunnel stopped" ELSE "CalledProcessError")
                  ELSE Returns(W, "Tunnel stopped")
        ELSE Returns(KillMatching(W, name), "Tunnel stopped")

\* The entries list_all_tunnels builds: one per local record, matched by name
\* against actual, the tunnels the provider's listing gave.
ListedTunnels(W, actual) ==
    LET st == LoadState(W)
    IN  {[name |-> n, managed |-> TRUE,
          routes |-> Get(st.tunnels[n], "routes", <<>>),
          auto_start |-> Get(st.tunnels[n], "auto_start", FALSE),
          exists |-> n \in DOMAIN actual,
          id |-> IF n \in DOMAIN actual THEN actual[n] ELSE NULL]
         : n \in DOMAIN st.tunnels}

\* What list_all_tunnels returns when the listing command answered.
ListAllTunnels(W) == ListedTunnels(W, W.registry)

---------------------------------------------------------------------------
(* add_route without a tunnel name, and the quick setup built on it *)

\* The default of add_route's tunnel_name parameter.
DefaultTunnelName == "Universal-Tunnel"

\* add_route(domain, port): end_user_url and tunnel_name take their defaults.
AddRouteDefault(W, domain, port, E) ==
    AddRoute(W, domain, port, "localhost", DefaultTunnelName, E)

\* quick_tunnel_setup(tunnel_name, domain, port), first half: a manager of its
\* own is constructed and creates the tunnel.
QuickTunnelCreate(W, tunnel_name, E) ==
    LET W1 == RegisterTunnel([W EXCEPT !.mgr = [tunnel_name |-> tunnel_name,
                                                config_file |-> ConfigName(tunnel_name),
                                                auto_start_on_create |-> TRUE]],
                             tunnel_name)
    IN  CreateTunnel(W1, tunnel_name, NULL, E)

\* The manager's add_route(d, p), or the one that ends quick_tunnel_setup: there
\* begun.world is the world after create_tunnel, whose result decides whether
\* add_route is called, and the function's manager is dropped at the end, the
\* caller's manager caller_mgr remains.
AddRouteDefaultIn(begun, d, p, outcome, caller_mgr) ==
    IF begun.quick /\ begun.world.ret # TRUE
    THEN [begun.world EXCEPT !.ret = FALSE, !.mgr = caller_mgr]
    ELSE [AddRouteDefault(begun.world, d, p, outcome)
             EXCEPT !.mgr = IF begun.quick THEN caller_mgr ELSE @]

---------------------------------------------------------------------------
(* Adopting a tunnel *)

PossibleConfigs(name) == <<GenericConfig, ConfigName(name), PlainName(name)>>

AdoptRoutesReversed(config) ==
    LET rules == SelectSeq(Get(config, "ingress", <<>>), IsHostRule)
    IN  [i \in 1..Len(rules) |->
            Route(rules[Len(rules) + 1 - i].hostname, rules[Len(rules) + 1 - i].service)]

\* The routes back-filled from a config: its hostname rules, in file order.
AdoptRoutes(config) ==
    LET rules == SelectSeq(Get(config, "ingress", <<>>), IsHostRule)
    IN  [i \in 1..Len(rules) |-> Route(rules[i].hostname, rules[i].service)]

\* list_ok: cloudflared tunnel list printed a JSON list
AdoptTunnel(W, name, list_ok) ==
    LET W0 == Ran(W, <<"list">>)
        W1 == UseTunnel(RegisterTunnel(W0, name), name)
        found == SelectSeq(PossibleConfigs(name), LAMBDA f : f \in DOMAIN W1.files)
        W2 == IF found[1] # W1.mgr.config_file
              THEN [W1 EXCEPT !.files = Put(@, W1.mgr.config_file, W1.files[found[1]])]
              ELSE W1
        config == LoadConfig(W2)
        raises == \E i \in 1..Len(Get(config, "ingress", <<>>)) :
                      /\ IsHostRule(config.ingress[i])
                      /\ "service" \notin DOMAIN config.ingress[i]
    IN  IF ~list_ok THEN Returns(W0, FALSE)
        ELSE IF name \notin DOMAIN W0.registry THEN Returns(W0, FALSE)
        ELSE IF found = <<>> THEN Returns(W1, TRUE)
        ELSE IF raises THEN Returns(W2, FALSE)
        ELSE Returns(UpdateTunnelInfo(W2, name, [routes |-> AdoptRoutes(config)]), TRUE)

---------------------------------------------------------------------------
(* Temporary tunnels *)

Min(S) == CHOOSE x \in S : \A y \in S : x <= y
Char(s, i) == SubSeq(s, i, i)
IsSpace(c) == c \in {" ", "\t", "\n"}

\* re.search(r'https://[^\s]+', line): the leftmost match, or None.
UrlMatch(line) ==
    LET starts == {i \in 1..(Len(line) - 8) :
                      SubSeq(line, i, i + 7) = "https://" /\ ~IsSpace(Char(line, i + 8))}
        i == Min(starts)
        stops == {j \in (i + 8)..Len(line) : IsSpace(Char(line, j))}
    IN  IF starts = {} THEN NULL
        ELSE SubSeq(line, i, IF stops = {} THEN Len(line) ELSE Min(stops) - 1)

HasUrlHint(line) ==
    line # "" /\ (Contains(line, "https://") \/ Contains(line, "trycloudflare.com"))

\* What the loop extracts from each line the child can write (lines 460-465).
FoundUrl == [line \in Lines |-> IF HasUrlHint(line) THEN UrlMatch(line) ELSE NULL]

\* The polling loop of create_temp_tunnel.  The child has written the lines
\* child.out and then exits, stays silent or keeps writing NoiseLine; k lines
\* have been read and polls half-seconds have been slept.
RECURSIVE PollUrl(_, _, _)
PollUrl(child, k, polls) ==
    IF ~(polls < Timeout * PollsPerSecond) THEN [end |-> "timeout", url |-> NULL]
    ELSE IF k >= Len(child.out) /\ child.fate = "exits" THEN [end |-> "exited", url |-> NULL]
    ELSE IF k >= Len(child.out) /\ child.fate = "silent" THEN [end |-> "blocked", url |-> NULL]
    ELSE LET line == IF k < Len(child.out) THEN child.out[k + 1] ELSE NoiseLine
         IN  IF FoundUrl[line] # NULL
             THEN [end |-> "url", url |-> FoundUrl[line]]
             ELSE PollUrl(child, k + 1, polls + 1)

\* One turn of the polling loop after k lines were read and polls half-seconds
\* slept: the loop ends (timeout, child exited, URL found), goes on to the
\* next turn, or stays in readline, which returns when the child writes a
\* line or closes its stderr.
PollTurn(child, k, polls) ==
    IF ~(polls < Timeout * PollsPerSecond) THEN "timeout"
    ELSE IF k >= Len(child.out) /\ child.fate = "exits" THEN "exited"
    ELSE IF k >= Len(child.out) /\ child.fate = "silent" THEN "blocked"
    ELSE IF FoundUrl[IF k < Len(child.out) THEN child.out[k + 1] ELSE NoiseLine] # NULL
         THEN "url"
    ELSE "again"

NoUrlRegisters(W, temp_name, pid) == Returns(RegisterTunnel(W, temp_name), NULL)

\* No URL: the child is terminated (or has exited), nothing is registered.
NoUrl(W, temp_name, pid) ==
    Returns([W EXCEPT !.alive = Del(@, pid)], NULL)

CreateTempTunnel(W, port, subdomain, child, pid) ==
    LET temp_name == "temp-" \o ToString(W.now)
        W1 == [Ran(W, <<"temp", ToString(port)>>) EXCEPT
                  !.alive = Put(@, pid, TempCmdLine(port, subdomain))]
        r == PollUrl(child, 0, 0)
        W2 == RegisterTunnel(W1, temp_name)
        W3 == UpdateTunnelInfo(W2, temp_name,
                  [temp_tunnel |-> TRUE, temp_url |-> r.url, temp_port |-> port,
                   temp_process_id |-> pid, auto_start |-> FALSE])
    IN  CASE child.fate = "unspawned" -> Returns(W, NULL)
          [] child.fate # "unspawned" /\ r.end = "blocked" -> Returns(W1, "blocked")
          [] child.fate # "unspawned" /\ r.end \in {"exited", "timeout"} ->
                NoUrl(W1, temp_name, pid)
          [] child.fate # "unspawned" /\ r.end = "url" -> Returns(W3, r.url)

\* create_temp_tunnel on any content of the state file. The file is first read
\* by _register_tunnel, once a URL was found; the KeyError of a document
\* without "tunnels" is an Exception, so the handler of the outer try prints
\* it and returns None.
CreateTempTunnelFrom(W, port, subdomain, child, pid) ==
    IF child.fate # "unspawned" /\ PollUrl(child, 0, 0).end = "url"
    THEN IF "tunnels" \notin DOMAIN LoadStateFrom(W.state)
         THEN Returns([Ran(W, <<"temp", ToString(port)>>) EXCEPT
                          !.alive = Put(@, pid, TempCmdLine(port, subdomain))], NULL)
         ELSE CreateTempTunnel([W EXCEPT !.state = LoadStateFrom(W.state)],
                               port, subdomain, child, pid)
    ELSE CreateTempTunnel(W, port, subdomain, child, pid)

\* The first turn of the loop reaches time.sleep: the child has not exited and
\* the line read from it holds no URL.
ReachesSleep(child) ==
    \/ Len(child.out) >= 1 /\ FoundUrl[child.out[1]] = NULL
    \/ child.out = <<>> /\ child.fate = "chatters"

\* create_temp_tunnel with a KeyboardInterrupt arriving in the first turn of the
\* loop.  In readline it is swallowed by the bare except around the read and
\* the call goes on; in time.sleep it is not an Exception, so the handler of
\* the outer try does not run and it leaves the call with the child running.
CreateTempTunnelInterrupted(W, port, subdomain, child, pid, at) ==
    IF at = "readline" THEN CreateTempTunnel(W, port, subdomain, child, pid)
    ELSE Returns([Ran(W, <<"temp", ToString(port)>>) EXCEPT
                     !.alive = Put(@, pid, TempCmdLine(port, subdomain))],
                 "KeyboardInterrupt")

\* The lines the login child can write.
LoginLines == {"INF Starting login",
               "Open https://dash.cloudflare.com/argotunnel?aud=1",
               "see https://example.com/help",
               "You have Successfully Logged in."}

\* extract_url_from_line: re.search(r'https://.*cloudflare.*', line), the
\* leftmost "https://" that has "cloudflare" after it, up to the end of the line.
ExtractUrlFromLine(line) ==
    LET starts == {i \in 1..(Len(line) - 7) :
                      /\ SubSeq(line, i, i + 7) = "https://"
                      /\ Contains(SubSeq(line, i + 8, Len(line)), "cloudflare")}
    IN  IF starts = {} THEN NULL ELSE SubSeq(line, Min(starts), Len(line))

\* detect_auth_success: "successfully logged" in line.lower()
DetectAuthSuccess(line) ==
    LET upper == "ABCDEFGHIJKLMNOPQRSTUVWXYZ"
        lower == "abcdefghijklmnopqrstuvwxyz"
        low(c) == IF \E n \in 1..26 : Char(upper, n) = c
                  THEN Char(lower, CHOOSE n \in 1..26 : Char(upper, n) = c) ELSE c
        Lowered[n \in 0..Len(line)] ==
            IF n = 0 THEN "" ELSE Lowered[n - 1] \o low(Char(line, n))
    IN  Contains(Lowered[Len(line)], "successfully logged")

\* What the reading loop finds in each line the child can write.
LoginFacts ==
    [line \in LoginLines |-> [url |-> ExtractUrlFromLine(line),
                              auth |-> DetectAuthSuccess(line)]]

\* update_status(status, url): the status record is written anew.
UpdateStatus(W, status) == Ran(W, <<"status", status>>)

\* The loop over the child's output, from line k on: url_found when a line
\* holds a URL other than the current one, completed when it reports the login.
RECURSIVE ReadLines(_, _, _, _)
ReadLines(W, out, k, current_url) ==
    IF k > Len(out) THEN W
    ELSE LET url == LoginFacts[out[k]].url
             changed == url # NULL /\ url # current_url
             W1 == IF changed THEN UpdateStatus(W, "url_found") ELSE W
             W2 == IF LoginFacts[out[k]].auth THEN UpdateStatus(W1, "completed") ELSE W1
         IN  ReadLines(W2, out, k + 1, IF changed THEN url ELSE current_url)

\* run_command_live(cmd) of core/login.py. The child writes the lines child.out
\* and then exits with a code ("exit0", "exit1"), or the read is ended by a
\* KeyboardInterrupt or another exception: then the child is terminated and
\* waited for and the exception raised again. Either way the child has exited
\* when the call ends.
RunCommandLive(W, pid, child) ==
    LET W1 == UpdateStatus(W, "starting")
        W2 == [W1 EXCEPT !.alive = Put(@, pid, " login")]
        W3 == ReadLines(W2, child.out, 1, NULL)
        W4 == [W3 EXCEPT !.alive = Del(@, pid)]
    IN  CASE child.end = "interrupt" ->
                Returns(UpdateStatus(W4, "manually_stopped"), "KeyboardInterrupt")
          [] child.end = "error" -> Returns(UpdateStatus(W4, "error"), "Exception")
          [] child.end = "exit0" -> Returns(UpdateStatus(W4, "completed"), "0")
          [] child.end = "exit1" -> Returns(UpdateStatus(W4, "error_exit_1"), "1")

IsTemp(info) == Get(info, "temp_tunnel", FALSE) = TRUE
TrackedPid(info) == Get(info, "temp_process_id", NULL)

ProcessExistsAlways(W, pid) == TRUE

\* os.kill(pid, 0) does not raise
ProcessExists(W, pid) == pid \in DOMAIN W.alive

RECURSIVE UnregisterEach(_, _)
UnregisterEach(W, S) ==
    IF S = {} THEN W
    ELSE LET n == CHOOSE n \in S : TRUE
         IN  UnregisterEach(UnregisterTunnel(W, n), S \ {n})

StopTempTunnel(W, url) ==
    LET st == LoadState(W)
        chosen == {n \in DOMAIN st.tunnels :
                      /\ IsTemp(st.tunnels[n])
                      /\ ~(url # NULL /\ Get(st.tunnels[n], "temp_url", NULL) # url)}
        pids == {TrackedPid(st.tunnels[n]) : n \in chosen} \ {NULL}
        W1 == [W EXCEPT !.alive = [p \in (DOMAIN @) \ pids |-> @[p]]]
    IN  Returns(UnregisterEach(W1, chosen), NULL)

\* ret: the records printed
ListTempTunnels(W) ==
    LET st == LoadState(W)
        checked == {n \in DOMAIN st.tunnels :
                       IsTemp(st.tunnels[n]) /\ TrackedPid(st.tunnels[n]) # NULL}
        live == {n \in checked : ProcessExists(W, TrackedPid(st.tunnels[n]))}
    IN  Returns(UnregisterEach(W, checked \ live), {st.tunnels[n] : n \in live})

\* active: what systemctl --user is-active answers for the tunnel's unit
CheckTunnelStatus(W, name, active) ==
    LET st == LoadState(W)
        tunnel_info == Get(st.tunnels, name, EmptyDict)
        pgrep == \/ \E n \in W.running : Contains(RunCmdLine(n), name)
                 \/ \E p \in DOMAIN W.alive : Contains(W.alive[p], name)
    IN  IF Get(tunnel_info, "auto_start", FALSE) = TRUE /\ HasSystemdUserSupport(W) /\ active
        THEN Returns(W, "running (service)")
        ELSE IF pgrep THEN Returns(W, "running (manual)")
        ELSE IF TrackedPid(tunnel_info) # NULL
             THEN IF ProcessExists(W, TrackedPid(tunnel_info))
                  THEN Returns(W, "running (temp)")
                  ELSE Returns(UpdateTunnelInfo(W, name, [temp_process_id |-> NULL]), "stopped")
        ELSE Returns(W, "stopped")

\* _check_tunnel_status for every record of S, as list_all_tunnels calls it for
\* the records it found with the provider; active: the names whose unit
\* systemctl reports active.
RECURSIVE CheckStatusEach(_, _, _)
CheckStatusEach(W, S, active) ==
    IF S = {} THEN W
    ELSE LET n == CHOOSE x \in S : TRUE
         IN  CheckStatusEach(CheckTunnelStatus(W, n, n \in active), S \ {n}, active)

\* list_all_tunnels(); list_ok: "cloudflared tunnel list --output json" printed
\* JSON. Output that does not parse is taken for an empty list.
ListAllTunnelsIn(W, list_ok, active) ==
    LET W0 == Ran(W, <<"list">>)
        actual_tunnels == IF list_ok THEN W0.registry ELSE EmptyDict
        found == DOMAIN LoadState(W0).tunnels \cap DOMAIN actual_tunnels
    IN  Returns(CheckStatusEach(W0, found, active), ListedTunnels(W0, actual_tunnels))

---------------------------------------------------------------------------

ListRoutes(W, tn) ==
    LET name == IF tn = NULL THEN W.mgr.tunnel_name ELSE tn
        st == LoadState(W)
        W1 == [W EXCEPT !.mgr.tunnel_name = name, !.mgr.config_file = ConfigName(name)]
    IN  IF name = NULL THEN <<>>
        ELSE IF name \in DOMAIN st.tunnels THEN Get(st.tunnels[name], "routes", <<>>)
        ELSE ConfigRoutes(LoadConfig(W1))

---------------------------------------------------------------------------
(* Calls *)

AutoFails == {"none", "binary", "register", "start"}

\* The outcomes of the external commands a call on tunnel `name` can run: the
\* provider's create (only run when the listing does not show the name), the
\* registration commands of setup_autostart (only run after a create), the
\* service restart (only run under systemd) and the deregistration commands.
OutcomesIn(name, removes, fails) ==
    LET creates == name # NULL /\ ~ListOutputContains(World, name)
    IN  [create_ok : IF creates THEN BOOLEAN ELSE {TRUE},
         auto_fail : IF creates THEN fails ELSE {"none"},
         svc_ok : IF platform = "systemd" /\ enabled # {} THEN BOOLEAN ELSE {TRUE},
         rm_ok : IF removes /\ enabled # {} THEN BOOLEAN ELSE {TRUE},
         rm_late : IF removes /\ enabled # {} /\ platform = "systemd"
                   THEN BOOLEAN ELSE {FALSE},
         dns_ok : {TRUE}, del : {<<>>}, removes : {FALSE}]

Outcomes(name, removes) == OutcomesIn(name, removes, AutoFails)

Effective(tn) == IF tn = NULL THEN mgr.tunnel_name ELSE tn

\* What list_routes returned for the tunnel of a call before the call was made.
RoutesBefore(call) ==
    LET tn == call[Len(call)]
    IN  IF call[1] \in {"add_route", "remove_route"} THEN ListRoutes(World, tn) ELSE <<>>

\* The tunnel records before a call on the temporary tunnels was made.
RecordsBefore(call) ==
    IF call[1] \in {"list_temp_tunnels", "stop_temp_tunnel", "_check_tunnel_status"}
    THEN state.tunnels ELSE EmptyDict

\* The processes alive before stop_temp_tunnel was called.
ProcsBefore(call) ==
    IF call[1] = "stop_temp_tunnel" THEN DOMAIN alive ELSE {}

\* The manager instances that run next to each other (the HTTP front end makes
\* one per request), and an instance that is in no state-store call.
Instances == {1, 2}
Idle == [pc |-> "idle", name |-> NULL, loaded |-> EmptyDict]

\* What was there for the bound tunnel before setup_autostart or
\* remove_autostart was called: its registration with the platform, its
\* generated file and its record's auto_start.
AutostartBefore(call) ==
    IF call[1] \in {"setup_autostart", "remove_autostart"}
    THEN [registered |-> CheckAutostartStatus(World),
          artifact |-> mgr.tunnel_name \in artifacts,
          auto_start |-> Get(Get(state.tunnels, mgr.tunnel_name, EmptyDict),
                             "auto_start", FALSE) = TRUE]
    ELSE [registered |-> FALSE, artifact |-> FALSE, auto_start |-> FALSE]

\* The call made W of the world; insts: the instances after it.
CommitInst(W, call, insts) ==
    /\ state' = W.state
    /\ files' = W.files
    /\ creds' = W.creds
    /\ registry' = W.registry
    /\ mgr' = W.mgr
    /\ enabled' = W.enabled
    /\ artifacts' = W.artifacts
    /\ running' = W.running
    /\ alive' = W.alive
    /\ now' = W.now
    /\ platform' = W.platform
    /\ last' = [op |-> call, ret |-> W.ret, cmds |-> W.cmds, before |-> RoutesBefore(call),
                records |-> RecordsBefore(call), procs |-> ProcsBefore(call),
                auto |-> AutostartBefore(call)]
    /\ inst' = insts

Commit(W, call) == CommitInst(W, call, inst)

NoManager == [tunnel_name |-> NULL, config_file |-> NULL, auto_start_on_create |-> TRUE]

Init ==
    /\ state = [tunnels |-> EmptyDict, current_tunnel |-> NULL, last_updated |-> 0]
    /\ files = EmptyDict
    /\ creds = {}
    /\ registry = EmptyDict
    /\ mgr = NoManager
    /\ enabled = {}
    /\ artifacts = {}
    /\ running = {}
    /\ alive = EmptyDict
    /\ now = 0
    /\ platform \in Platforms
    /\ last = [op |-> <<"init">>, ret |-> NULL, cmds |-> <<>>, before |-> <<>>,
               records |-> EmptyDict, procs |-> {},
               auto |-> [registered |-> FALSE, artifact |-> FALSE, auto_start |-> FALSE]]
    /\ inst = [i \in Instances |-> Idle]

\* UniversalTunnelManager(tunnel_name, auto_start_on_create)
ConstructIn(names, autos) ==
    \E tn \in names \cup {NULL}, auto \in autos :
        LET W1 == [World EXCEPT !.mgr = [tunnel_name |-> tn,
                                          config_file |-> IF tn = NULL THEN NULL
                                                          ELSE ConfigName(tn),
                                          auto_start_on_create |-> auto]]
            W2 == IF tn = NULL THEN W1 ELSE RegisterTunnel(W1, tn)
        IN  Commit(W2, <<"construct", tn>>)

Construct(names) == ConstructIn(names, BOOLEAN)

DoRegister(names) ==
    \E tn \in names : Commit(RegisterTunnel(World, tn), <<"register", tn>>)

DoUseTunnel(names) ==
    \E tn \in names : Commit(UseTunnel(World, tn), <<"use_tunnel", tn>>)

\* setups: the setup_autostart arguments; fails: where setup_autostart may fail
DoCreateTunnelIn(names, setups, fails) ==
    \E tn \in names \cup {NULL}, sas \in setups :
        /\ Effective(tn) # NULL
        /\ \E E \in OutcomesIn(Effective(tn), FALSE, fails) :
              Commit(CreateTunnel(World, tn, sas, E), <<"create_tunnel", tn>>)

DoCreateTunnel(names) == DoCreateTunnelIn(names, {NULL, "True", "False"}, AutoFails)

\* dns: the outcomes of the DNS-record command in this specification
DoAddRouteDnsIn(names, domains, ports, fails, dns) ==
    \E d \in domains, p \in ports, h \in Hosts, tn \in names \cup {NULL} :
        \E E \in OutcomesIn(Effective(tn), FALSE, fails), ok \in dns :
            Commit(AddRoute(World, d, p, h, tn, [E EXCEPT !.dns_ok = ok]),
                   <<"add_route", d, p, h, tn>>)

DoAddRouteIn(names, domains, ports, fails) ==
    DoAddRouteDnsIn(names, domains, ports, fails, {TRUE})

DoAddRoute(names, domains) == DoAddRouteIn(names, domains, Ports, AutoFails)

\* The calls that run add_route(d, p) with the tunnel name left out: the call
\* itself on a manager bound to a tunnel, and quick_tunnel_setup(tn, d, p),
\* which has constructed a manager for tn and created tn by then.
AddRouteDefaultCalls(names, d, p, fails) ==
    {[world |-> World, quick |-> FALSE, op |-> <<"add_route_default", d, p, bound>>] :
        bound \in {mgr.tunnel_name} \ {NULL}}
    \cup UNION {{[world |-> QuickTunnelCreate(World, tn, E1), quick |-> TRUE,
                  op |-> <<"quick_tunnel_setup", d, p, tn>>] :
                    E1 \in OutcomesIn(tn, FALSE, fails)} : tn \in names}

DoAddRouteDefault(names, domains, ports, fails) ==
    \E d \in domains, p \in ports :
        \E begun \in AddRouteDefaultCalls(names, d, p, fails),
           E2 \in OutcomesIn(DefaultTunnelName, FALSE, fails) :
            Commit(AddRouteDefaultIn(begun, d, p, E2, mgr), begun.op)

\* setup_autostart() of the manager bound to one of names
DoSetupAutostart(names) ==
    /\ mgr.tunnel_name \in names
    /\ \E E \in Outcomes(NULL, FALSE), fail \in AutoFails :
          Commit(SetupAutostart(World, [E EXCEPT !.auto_fail = fail]),
                  <<"setup_autostart", fail>>)

\* remove_autostart() of the manager bound to one of names
DoRemoveAutostart(names) ==
    /\ mgr.tunnel_name \in names
    /\ \E E \in Outcomes(NULL, TRUE) :
          Commit(RemoveAutostart(World, E),
                  <<"remove_autostart", IF E.rm_ok THEN "ok"
                                        ELSE IF E.rm_late THEN "late" ELSE "early">>)

DoRemoveRoute(names, domains) ==
    \E d \in domains, tn \in names \cup {NULL} :
        \E E \in Outcomes(NULL, FALSE) :
            Commit(RemoveRoute(World, d, tn, E), <<"remove_route", d, tn>>)

\* The provider's answers to the delete commands of one call: a registered
\* tunnel is deleted, or has active connections, or the command fails; an
\* answer other than "active" ends the call.
DeleteAnswers(name) ==
    IF name \in DOMAIN registry
    THEN {outs \in [1..MaxRetries -> {"ok", "active", "error"}] :
            \A i, j \in 1..MaxRetries : (i < j /\ outs[i] # "active") => outs[j] = outs[i]}
    ELSE {[i \in 1..MaxRetries |-> "error"]}

\* answers: the answers the provider gives in this specification
DoDeleteTunnelIn(names, answers) ==
    \E tn \in names \cup {NULL} :
        \E E \in Outcomes(NULL, TRUE), outs \in DeleteAnswers(Effective(tn)) \cap answers :
          \E removes \in IF \E i \in 1..MaxRetries : outs[i] = "ok"
                          THEN BOOLEAN ELSE {FALSE} :
            Commit(DeleteTunnel(World, tn, [E EXCEPT !.del = outs, !.removes = removes]),
                   <<"delete_tunnel", outs, tn>>)

DoDeleteTunnel(names) ==
    DoDeleteTunnelIn(names, [1..MaxRetries -> {"ok", "active", "error"}])

DoListRoutes(names) ==
    \E tn \in names \cup {NULL} :
        Commit(Returns(World, ListRoutes(World, tn)), <<"list_routes", tn>>)

UpdateInfos ==
    {[routes |-> <<Route("app.example.com", ServiceUrl("svc", 3000))>>],
     [auto_start |-> TRUE]}

DoUpdateTunnelInfo(names) ==
    \E tn \in names, info \in UpdateInfos :
        Commit(UpdateTunnelInfo(World, tn, info), <<"update", tn, info>>)

DoUnregister(names) ==
    \E tn \in names : Commit(UnregisterTunnel(World, tn), <<"unregister", tn>>)

\* The state file is removed, garbled or replaced by a foreign document.
DamageState ==
    \E doc \in Unreadable \cup ForeignDocuments :
        Commit([World EXCEPT !.state = doc], <<"damage_state">>)

DoRegisterFrom(names) ==
    \E tn \in names : Commit(RegisterTunnelFrom(World, tn), <<"register", tn>>)

DoUpdateTunnelInfoFrom(names) ==
    \E tn \in names, info \in UpdateInfos :
        Commit(UpdateTunnelInfoFrom(World, tn, info), <<"update", tn>>)

DoUnregisterFrom(names) ==
    \E tn \in names : Commit(UnregisterTunnelFrom(World, tn), <<"unregister", tn>>)

DoAdoptTunnel(names) ==
    \E name \in names, list_ok \in BOOLEAN :
        Commit(AdoptTunnel(World, name, list_ok), <<"adopt_tunnel", list_ok, name>>)

\* Config files as cloudflared users write them by hand.
HandWritten ==
    {[tunnel |-> "id1",
      ingress |-> <<HostRule("app.example.com", ServiceUrl("svc", 3000)),
                    HostRule("api.example.com", ServiceUrl("svc", 8080)), CatchAll>>],
     [tunnel |-> "id1",
      ingress |-> <<HostRule("api.example.com", ServiceUrl("svc", 8080)),
                    HostRule("app.example.com", ServiceUrl("svc", 3000)), CatchAll>>],
     [tunnel |-> "id1",
      ingress |-> <<HostRule("app.example.com", ServiceUrl("svc", 3000)),
                    HostRule("app.example.com", ServiceUrl("svc", 8080)), CatchAll>>],
     [tunnel |-> "id1", ingress |-> <<[hostname |-> "app.example.com"], CatchAll>>],
     [tunnel |-> "id1"]}

\* Somebody writes one of configs into the config directory.
WriteConfigFileIn(names, configs) ==
    \E name \in names, i \in 1..3, config \in configs :
        Commit([World EXCEPT !.files = Put(@, PossibleConfigs(name)[i], config)],
               <<"write_config", PossibleConfigs(name)[i]>>)

WriteConfigFile(names) == WriteConfigFileIn(names, HandWritten)

\* A tunnel is created with the provider outside the manager.
CreateElsewhere(names) ==
    \E name \in names \ DOMAIN registry, id \in FreshIds(World) :
        Commit(ProviderCreate(World, name, id), <<"create_elsewhere", name>>)

\* What a temporary tunnel's child does: the lines it writes, then its fate.
\* Nothing after a line with a URL is read, so such a line comes last.
Children ==
    LET outs == UNION {[1..n -> Lines] : n \in 0..MaxNoise}
        found(out) == {i \in 1..Len(out) : FoundUrl[out[i]] # NULL}
    IN  {c \in [out : outs, fate : {"exits", "silent", "chatters"}] :
            /\ found(c.out) \subseteq {Len(c.out)}
            /\ found(c.out) # {} => c.fate = "silent"}
        \cup {[out |-> <<>>, fate |-> "unspawned"]}

DoCreateTempTunnelIn(subdomains, children, pids) ==
    \E port \in TempPorts, subdomain \in subdomains, child \in children,
       pid \in pids \ DOMAIN alive :
        Commit(CreateTempTunnel(World, port, subdomain, child, pid),
               <<"create_temp_tunnel", ToString(port), subdomain, child, pid>>)

DoCreateTempTunnel == DoCreateTempTunnelIn(Subdomains \cup {NULL}, Children, Pids)

DoCreateTempTunnelFrom(children, pids) ==
    \E port \in TempPorts, child \in children, pid \in pids \ DOMAIN alive :
        Commit(CreateTempTunnelFrom(World, port, NULL, child, pid),
               <<"create_temp_tunnel", ToString(port), NULL, child, pid>>)

\* create_temp_tunnel interrupted while it waits for the URL
DoCreateTempTunnelInterrupted(children, pids) ==
    \E port \in TempPorts, child \in children, pid \in pids \ DOMAIN alive,
       at \in {"readline", "sleep"} :
        /\ child.fate # "unspawned"
        /\ ~(child.out = <<>> /\ child.fate = "exits")
        /\ at = "sleep" => ReachesSleep(child)
        /\ Commit(CreateTempTunnelInterrupted(World, port, NULL, child, pid, at),
                  <<"create_temp_tunnel", ToString(port), NULL, child, pid, at>>)

\* What the login child does: the lines it writes and how the read ends.
LoginChildren ==
    [out : UNION {[1..n -> LoginLines] : n \in 0..MaxLines},
     end : {"exit0", "exit1", "interrupt", "error"}]

DoRunCommandLive(pids) ==
    \E pid \in pids \ DOMAIN alive, child \in LoginChildren :
        Commit(RunCommandLive(World, pid, child), <<"run_command_live", pid, child>>)

DoStopTempTunnel ==
    \E url \in {FoundUrl[l] : l \in Lines} :
        Commit(StopTempTunnel(World, url), <<"stop_temp_tunnel", url>>)

DoListTempTunnels ==
    Commit(ListTempTunnels(World), <<"list_temp_tunnels">>)

DoCheckTunnelStatus ==
    \E name \in DOMAIN state.tunnels :
        \E active \in IF Get(state.tunnels[name], "auto_start", FALSE) = TRUE
                          /\ HasSystemdUserSupport(World)
                       THEN BOOLEAN ELSE {FALSE} :
            Commit(CheckTunnelStatus(World, name, active), <<"_check_tunnel_status", name>>)

DoStopTunnel(names) ==
    \E tn \in names \cup {NULL}, stop_ok \in BOOLEAN :
        Commit(StopTunnel(World, tn, stop_ok), <<"stop_tunnel", stop_ok, tn>>)

\* _restart_tunnel() of the manager bound to one of names
DoRestartTunnel(names) ==
    /\ mgr.tunnel_name \in names
    /\ \E E \in Outcomes(NULL, FALSE) :
          Commit(RestartTunnel(World, E), <<"_restart_tunnel", E.svc_ok>>)

DoListAllTunnels ==
    \E list_ok \in BOOLEAN,
       active \in SUBSET {n \in DOMAIN state.tunnels :
                            /\ Get(state.tunnels[n], "auto_start", FALSE) = TRUE
                            /\ HasSystemdUserSupport(World)} :
        Commit(ListAllTunnelsIn(World, list_ok, active), <<"list_all_tunnels", list_ok>>)

\* create_temp_tunnel taken turn by turn by instance 1: the child is spawned,
TempSpawns(children, pids) ==
    /\ inst[1].pc # "polling"
    /\ \E port \in TempPorts, child \in children, pid \in pids \ DOMAIN alive :
          CommitInst([Ran(World, <<"temp", ToString(port)>>) EXCEPT
                         !.alive = Put(@, pid, TempCmdLine(port, NULL))],
                     <<"spawn", pid>>,
                     [inst EXCEPT ![1] = [pc |-> "polling", pid |-> pid, port |-> port,
                                          child |-> child, k |-> 0, polls |-> 0]])

\* then the loop takes a turn: it goes on, or it ends and the call returns
\* what create_temp_tunnel returns for this child. No turn is taken while
\* readline waits for the child.
TempPolls ==
    /\ inst[1].pc = "polling"
    /\ LET call == inst[1]
           turn == PollTurn(call.child, call.k, call.polls)
       IN  \/ /\ turn = "again"
              /\ CommitInst(World, <<"poll", call.pid>>,
                            [inst EXCEPT ![1].k = @ + 1, ![1].polls = @ + 1])
           \/ /\ turn \in {"timeout", "exited", "url"}
              /\ CommitInst(CreateTempTunnel([World EXCEPT !.alive = Del(@, call.pid)],
                                             call.port, NULL, call.child, call.pid),
                            <<"create_temp_tunnel", ToString(call.port), NULL, call.child,
                              call.pid>>,
                            [inst EXCEPT ![1] = [Idle EXCEPT !.pc = "returned"]])

\* A temporary tunnel's child exits by itself.
ChildDies ==
    \E pid \in DOMAIN alive :
        Commit([World EXCEPT !.alive = Del(@, pid)], <<"child_dies", pid>>)

Tick ==
    /\ now < MaxTime
    /\ now' = now + 1
    /\ UNCHANGED <<state, files, creds, registry, mgr, enabled, artifacts, running,
                   alive, platform, last, inst>>

\* A step of instance i inside _register_tunnel: the state file becomes doc.
StoreStep(i, doc, to, call) ==
    /\ state' = doc
    /\ inst' = [inst EXCEPT ![i] = to]
    /\ last' = [last EXCEPT !.op = call, !.ret = NULL, !.cmds = <<>>]
    /\ UNCHANGED <<files, creds, registry, mgr, enabled, artifacts, running, alive,
                   now, platform>>

\* _register_tunnel(name) of instance i, first statement: state = _load_state().
RegisterLoads(i, names) ==
    /\ inst[i].pc = "idle"
    /\ \E name \in names :
          StoreStep(i, state, [pc |-> "loaded", name |-> name, loaded |-> LoadStateFrom(state)],
                    <<"load", i>>)

\* _save_state, open(STATE_FILE, 'w'): the file is truncated, and holds no
\* JSON document until the dump has been written out.
RegisterOpens(i) ==
    /\ inst[i].pc = "loaded"
    /\ StoreStep(i, [garbled |-> TRUE], [inst[i] EXCEPT !.pc = "writing"], <<"open", i>>)

\* _save_state, json.dump and close: the file holds what the instance made of
\* the document it had loaded.
RegisterDumps(i) ==
    /\ inst[i].pc = "writing"
    /\ StoreStep(i, RegisterTunnel([World EXCEPT !.state = inst[i].loaded], inst[i].name).state,
                 [inst[i] EXCEPT !.pc = "done"], <<"dump", i>>)

\* use_tunnel(name) of instance i enters _register_tunnel: state = _load_state().
UseLoads(i, names) ==
    /\ inst[i].pc \in {"idle", "done"}
    /\ \E name \in names :
          StoreStep(i, state, [pc |-> "use_loaded", name |-> name, loaded |-> LoadState(World)],
                    <<"use_tunnel", i, name>>)

\* _register_tunnel saves what it made of the document it had loaded.
UseRegisters(i) ==
    /\ inst[i].pc = "use_loaded"
    /\ StoreStep(i, RegisterTunnel([World EXCEPT !.state = inst[i].loaded], inst[i].name).state,
                 [inst[i] EXCEPT !.pc = "use_registered"], <<"save", i>>)

\* use_tunnel, after _register_tunnel: state = self._load_state().
UseReloads(i) ==
    /\ inst[i].pc = "use_registered"
    /\ StoreStep(i, state, [inst[i] EXCEPT !.pc = "use_reloaded", !.loaded = LoadState(World)],
                 <<"load", i>>)

\* use_tunnel: state["current_tunnel"] = tunnel_name; self._save_state(state).
UseSaves(i) ==
    /\ inst[i].pc = "use_reloaded"
    /\ StoreStep(i, SaveState(World, [inst[i].loaded EXCEPT !.current_tunnel = inst[i].name]).state,
                 [inst[i] EXCEPT !.pc = "done"], <<"save", i>>)

\* _unregister_tunnel(name) of instance i (as delete_tunnel, stop_temp_tunnel
\* and list_temp_tunnels call it), first statement: state = _load_state().
UnregisterLoads(i, names) ==
    /\ inst[i].pc \in {"idle", "done"}
    /\ \E name \in names :
          StoreStep(i, state, [pc |-> "un_loaded", name |-> name, loaded |-> LoadState(World)],
                    <<"unregister", i, name>>)

\* _unregister_tunnel removes the record from the document it had loaded and
\* saves it; nothing is saved when the document has no such record.
UnregisterSaves(i) ==
    /\ inst[i].pc = "un_loaded"
    /\ StoreStep(i, UnregisterTunnel([World EXCEPT !.state = inst[i].loaded], inst[i].name).state,
                 [inst[i] EXCEPT !.pc = "done"], <<"save", i>>)

\* A step of instance i that leaves the config directory as fs.
ConfigStep(i, fs, to, call) ==
    /\ files' = fs
    /\ inst' = [inst EXCEPT ![i] = to]
    /\ last' = [last EXCEPT !.op = call, !.ret = NULL, !.cmds = <<>>]
    /\ UNCHANGED <<state, creds, registry, mgr, enabled, artifacts, running, alive,
                   now, platform>>

\* add_route(domain, 3000, "svc", name) of instance i, whose manager was made
\* for name and found the tunnel with the provider: config = _load_config().
AddLoadsConfig(i, names, domains) ==
    /\ inst[i].pc = "idle"
    /\ \E name \in names \cap DOMAIN registry \cap DOMAIN state.tunnels, domain \in domains :
          ConfigStep(i, files, [pc |-> "config_loaded", name |-> name, domain |-> domain,
                                loaded |-> Get(files, ConfigName(name), EmptyDict),
                                routes |-> <<>>],
                     <<"add_route", i, domain, name>>)

\* add_route: the rule of the domain and the catch-all are replaced in the
\* config that was loaded, and _save_config writes it.
AddSavesConfig(i) ==
    /\ inst[i].pc = "config_loaded"
    /\ LET id == GetTunnelId(World, inst[i].name)
           found == {f \in creds : StartsWith(f, id) /\ EndsWith(f, ".json")}
           config == Put(inst[i].loaded, "tunnel", id)
           config1 == IF found = {} THEN config
                      ELSE Put(config, "credentials-file", CHOOSE f \in found : TRUE)
           rules == WithoutCatchAll(WithoutDomain(Get(config1, "ingress", <<>>), inst[i].domain))
                       \o <<HostRule(inst[i].domain, ServiceUrl("svc", 3000)), CatchAll>>
       IN  ConfigStep(i, Put(files, ConfigName(inst[i].name), Put(config1, "ingress", rules)),
                      [inst[i] EXCEPT !.pc = "config_saved"], <<"save_config", i>>)

\* add_route: state = self._load_state(), and the new route list is made of
\* the routes of that document.
AddLoadsState(i) ==
    /\ inst[i].pc = "config_saved"
    /\ LET st == LoadState(World)
           routes == RoutesWithout(Get(st.tunnels[inst[i].name], "routes", <<>>), inst[i].domain)
                        \o <<Route(inst[i].domain, ServiceUrl("svc", 3000))>>
       IN  IF inst[i].name \in DOMAIN st.tunnels
           THEN StoreStep(i, state, [inst[i] EXCEPT !.pc = "state_loaded", !.routes = routes],
                          <<"load", i>>)
           ELSE StoreStep(i, state, [inst[i] EXCEPT !.pc = "added"], <<"load", i>>)

\* add_route: _update_tunnel_info(name, {"routes": routes}), taken as one
\* step; the DNS record and the restart that follow write no file.
AddUpdates(i) ==
    /\ inst[i].pc = "state_loaded"
    /\ StoreStep(i, UpdateTunnelInfo(World, inst[i].name, [routes |-> inst[i].routes]).state,
                 [inst[i] EXCEPT !.pc = "added"], <<"update", i>>)

---------------------------------------------------------------------------
(* Routes of one tunnel: calls of one manager after another on tunnel "demo", *)
(* starting from a fresh host (no state, no config file).                    *)

NextRoutes ==
    \/ Construct({"demo"})
    \/ DoCreateTunnel({"demo"})
    \/ DoAddRoute({"demo"}, Domains)
    \/ DoRemoveRoute({"demo"}, Domains)
    \/ DoListRoutes({"demo"})

SpecRoutes == Init /\ [][NextRoutes]_vars

---------------------------------------------------------------------------
(* The state store alone: register, update, unregister and use_tunnel on two *)
(* tunnel names, with the clock advancing between calls.                    *)

NextStore ==
    \/ Construct(Names)
    \/ DoRegister(Names)
    \/ DoUseTunnel(Names)
    \/ DoUpdateTunnelInfo(Names)
    \/ DoUnregister(Names)
    \/ Tick

\* No call of the state store reads the platform.
InitStore == Init /\ platform = "systemd"

SpecStore == InitStore /\ [][NextStore]_vars

---------------------------------------------------------------------------
(* Deleting a tunnel: create, add_route and delete_tunnel on tunnel "demo". *)

NextDelete ==
    \/ Construct({"demo"})
    \/ DoCreateTunnel({"demo"})
    \/ DoAddRoute({"demo"}, {"app.example.com"})
    \/ DoDeleteTunnel({"demo"})

InitDelete == Init /\ platform \in {"systemd", "cron"}

SpecDelete == InitDelete /\ [][NextDelete]_vars

---------------------------------------------------------------------------
(* Temporary tunnels: creating, listing, stopping and polling them while     *)
(* their children die and the clock advances.                                *)

NextTemp ==
    \/ DoCreateTempTunnel
    \/ DoListTempTunnels
    \/ DoStopTempTunnel
    \/ DoCheckTunnelStatus
    \/ ChildDies
    \/ Tick

SpecTemp == InitStore /\ [][NextTemp]_vars

---------------------------------------------------------------------------
(* Adopting the tunnel "legacy", created and configured outside the manager. *)

NextAdopt ==
    \/ Construct({"legacy"})
    \/ CreateElsewhere({"legacy"})
    \/ WriteConfigFile({"legacy"})
    \/ DoAdoptTunnel({"legacy"})

SpecAdopt == InitStore /\ [][NextAdopt]_vars

---------------------------------------------------------------------------
(* Registering and deregistering the autostart of tunnel "demo" on each      *)
(* platform, around its creation and deletion.                               *)

AutostartAnswers == {[i \in 1..MaxRetries |-> "ok"], [i \in 1..MaxRetries |-> "error"]}

NextAutostart ==
    \/ ConstructIn({"demo"}, BOOLEAN)
    \/ DoCreateTunnel({"demo"})
    \/ DoSetupAutostart({"demo"})
    \/ DoRemoveAutostart({"demo"})
    \/ DoDeleteTunnelIn({"demo"}, AutostartAnswers)
    \/ DoStopTunnel({"demo"})
    \/ DoRestartTunnel({"demo"})

SpecAutostart == Init /\ [][NextAutostart]_vars

---------------------------------------------------------------------------
(* A manager bound to tunnel "demo", and quick_tunnel_setup for "demo",       *)
(* adding routes without naming the tunnel.                                  *)

NextBound ==
    \/ ConstructIn({"demo"}, {FALSE})
    \/ DoUseTunnel({"demo"})
    \/ DoCreateTunnelIn({"demo"}, {"False"}, {"none"})
    \/ DoAddRouteDefault({"demo"}, {"app.example.com"}, {3000}, {"none"})
    \/ DoRemoveRoute({"demo"}, {"app.example.com"})

SpecBound == InitDelete /\ [][NextBound]_vars

---------------------------------------------------------------------------
(* Creating tunnels whose names contain one another, next to tunnels created *)
(* with the provider outside the manager.                                    *)

CreateNames == {"demo", "demo-api"}

NextCreate ==
    \/ ConstructIn(CreateNames, BOOLEAN)
    \/ DoUseTunnel(CreateNames)
    \/ CreateElsewhere(CreateNames)
    \/ DoCreateTunnelIn(CreateNames, {NULL, "False"}, {"none", "register"})

SpecCreate == Init /\ [][NextCreate]_vars

---------------------------------------------------------------------------
(* Adding routes to tunnel "demo" while the DNS-record command may fail.     *)

NextDns ==
    \/ ConstructIn({"demo"}, BOOLEAN)
    \/ DoCreateTunnelIn({"demo"}, {NULL}, {"none"})
    \/ DoAddRouteDnsIn({"demo"}, Domains, {3000}, {"none", "register"}, BOOLEAN)
    \/ DoRemoveRoute({"demo"}, Domains)

SpecDns == InitDelete /\ [][NextDns]_vars

---------------------------------------------------------------------------
(* Stopping temporary tunnels next to the record of tunnel "demo".           *)

StopChildren ==
    {[out |-> <<"INF |  https://a.trycloudflare.com  |">>, fate |-> "silent"],
     [out |-> <<"INF https://b.trycloudflare.com">>, fate |-> "silent"]}

NextStop ==
    \/ ConstructIn({"demo"}, {FALSE})
    \/ DoCreateTempTunnelIn({NULL}, StopChildren, Pids)
    \/ DoStopTempTunnel
    \/ ChildDies
    \/ Tick

SpecStop == InitStore /\ [][NextStop]_vars

---------------------------------------------------------------------------
(* The state store on a state file that other hands remove, garble or        *)
(* replace between the calls.                                                *)

NextLoad ==
    \/ DamageState
    \/ DoRegisterFrom(Names)
    \/ DoUpdateTunnelInfoFrom(Names)
    \/ DoUnregisterFrom(Names)
    \/ Tick

SpecLoad == InitStore /\ [][NextLoad]_vars

---------------------------------------------------------------------------
(* Temporary tunnels created whatever the state file holds. *)

\* The children of this specification: one exits at once, one never writes a
\* URL, one writes a URL.
SpawnChildren ==
    {[out |-> <<>>, fate |-> "exits"],
     [out |-> <<>>, fate |-> "chatters"],
     [out |-> <<"INF https://b.trycloudflare.com">>, fate |-> "silent"]}

NextSpawn ==
    \/ DamageState
    \/ DoCreateTempTunnelFrom(SpawnChildren, Pids)
    \/ ChildDies
    \/ Tick

SpecSpawn == InitStore /\ [][NextSpawn]_vars

---------------------------------------------------------------------------
(* create_temp_tunnel turn by turn. The call is a running process: it takes  *)
(* its next turn whenever it can (weak fairness of TempPolls).              *)

NextPoll ==
    \/ TempSpawns(Children \ {[out |-> <<>>, fate |-> "unspawned"]}, Pids)
    \/ TempPolls
    \/ DoStopTempTunnel
    \/ Tick

SpecPoll == InitStore /\ [][NextPoll]_vars /\ WF_vars(TempPolls)

---------------------------------------------------------------------------
(* Blocking calls that spawn a child, interrupted by the user or not.        *)

NextInterrupt ==
    \/ DoRunCommandLive(Pids)
    \/ DoCreateTempTunnelInterrupted(Children, Pids)
    \/ DoStopTempTunnel
    \/ ChildDies
    \/ Tick

SpecInterrupt == InitStore /\ [][NextInterrupt]_vars

---------------------------------------------------------------------------
(* Listing: local records and provider tunnels that come and go apart. *)

ListNames == {"demo", "legacy"}

NextList ==
    \/ ConstructIn(ListNames, {FALSE})
    \/ CreateElsewhere(ListNames)
    \/ DoUnregister(ListNames)
    \/ DoListAllTunnels

SpecList == InitStore /\ [][NextList]_vars

---------------------------------------------------------------------------
(* A manager bound to tunnel "old", then two further instances registering  *)
(* tunnels at the same time on the state file that holds its record.        *)

RaceNames == {"a", "b"}

NextRace ==
    \/ mgr.tunnel_name = NULL /\ ConstructIn({"old"}, {FALSE})
    \/ \E i \in Instances : mgr.tunnel_name = "old" /\ RegisterLoads(i, RaceNames)
    \/ \E i \in Instances : RegisterOpens(i)
    \/ \E i \in Instances : RegisterDumps(i)
    \/ Tick

SpecRace == InitStore /\ [][NextRace]_vars

---------------------------------------------------------------------------
(* The tunnel "legacy", configured by hand before any manager exists, then   *)
(* adopted by a manager that adds and removes routes, one call at a time.    *)

\* Valid cloudflared configs: one serves a host, one also answers a retired
\* host with 404.
MirrorConfigs ==
    {[tunnel |-> "id1",
      ingress |-> <<HostRule("api.example.com", ServiceUrl("svc", 8080)), CatchAll>>],
     [tunnel |-> "id1",
      ingress |-> <<HostRule("old.example.com", "http_status:404"),
                    HostRule("api.example.com", ServiceUrl("svc", 8080)), CatchAll>>]}

NextMirror ==
    \/ ConstructIn({}, {FALSE})
    \/ CreateElsewhere({"legacy"})
    \/ mgr = NoManager /\ WriteConfigFileIn({"legacy"}, MirrorConfigs)
    \/ mgr # NoManager /\ DoAdoptTunnel({"legacy"})
    \/ /\ "legacy" \in DOMAIN state.tunnels
       /\ DoAddRouteIn({"legacy"} \cap {mgr.tunnel_name}, Domains, {3000}, {"none"})
    \/ /\ "legacy" \in DOMAIN state.tunnels
       /\ DoRemoveRoute({"legacy"} \cap {mgr.tunnel_name}, Domains \cup {"old.example.com"})

SpecMirror == InitStore /\ [][NextMirror]_vars

---------------------------------------------------------------------------
(* Two instances working on one state file, statement by statement: the     *)
(* first selects tunnels with use_tunnel, the second unregisters tunnels,    *)
(* while the clock advances.                                                 *)

NextUse ==
    \/ UseLoads(1, RaceNames)
    \/ UseRegisters(1)
    \/ UseReloads(1)
    \/ UseSaves(1)
    \/ UnregisterLoads(2, RaceNames)
    \/ UnregisterSaves(2)
    \/ Tick

SpecUse == InitStore /\ [][NextUse]_vars

---------------------------------------------------------------------------
(* Two requests that add a route to tunnel "demo" at the same time, each     *)
(* with a manager of its own, statement by statement.                        *)

NextAdds ==
    \/ mgr.tunnel_name = NULL /\ ConstructIn({"demo"}, {FALSE})
    \/ CreateElsewhere({"demo"})
    \/ \E i \in Instances : AddLoadsConfig(i, {"demo"}, Domains)
    \/ \E i \in Instances : AddSavesConfig(i)
    \/ \E i \in Instances : AddLoadsState(i)
    \/ \E i \in Instances : AddUpdates(i)
    \/ Tick

SpecAdds == InitStore /\ [][NextAdds]_vars

---------------------------------------------------------------------------
(* Every operation that writes the state document, one call at a time, on    *)
(* tunnel "demo" and the temporary tunnels of one second.                    *)

\* The children of this specification: one exits at once, one writes a URL.
DocumentChildren ==
    {[out |-> <<>>, fate |-> "exits"],
     [out |-> <<"INF https://b.trycloudflare.com">>, fate |-> "silent"]}

\* The provider deletes the tunnel at once, or never.
DocumentAnswers ==
    {[i \in 1..MaxRetries |-> "ok"], [i \in 1..MaxRetries |-> "active"]}

NextDocument ==
    \/ ConstructIn({"demo"}, {FALSE})
    \/ DoUseTunnel({"demo"})
    \/ DoCreateTunnelIn({"demo"}, {NULL}, {"none"})
    \/ CreateElsewhere({"demo"})
    \/ DoAdoptTunnel({"demo"})
    \/ DoAddRouteIn({"demo"}, {"app.example.com"}, {3000}, {"none"})
    \/ DoRemoveRoute({"demo"}, {"app.example.com"})
    \/ DoDeleteTunnelIn({"demo"}, DocumentAnswers)
    \/ DoCreateTempTunnelIn({NULL}, DocumentChildren, {"1"})
    \/ DoStopTempTunnel
    \/ DoListTempTunnels
    \/ ChildDies

InitDocument == Init /\ platform = "cron"

SpecDocument == InitDocument /\ [][NextDocument]_vars

---------------------------------------------------------------------------
(* One manager at a time working on two tunnels: it is bound to one and is   *)
(* asked to create, select and delete either.                                *)

NextCurrent ==
    \/ ConstructIn(Names, {FALSE})
    \/ DoUseTunnel(Names)
    \/ DoCreateTunnelIn(Names, {"False"}, {"none"})
    \/ DoDeleteTunnelIn(Names, DocumentAnswers)

SpecCurrent == InitDocument /\ [][NextCurrent]_vars

---------------------------------------------------------------------------
(* Two tunnels whose names contain one another, each with its run process,   *)
(* next to a temporary tunnel, while one of them is stopped, restarted or    *)
(* deleted.                                                                  *)

NextKill ==
    \/ ConstructIn(CreateNames, {FALSE})
    \/ DoCreateTunnelIn(CreateNames, {"False"}, {"none"})
    \/ DoCreateTempTunnelIn({NULL}, DocumentChildren, {"1"})
    \/ DoRestartTunnel(CreateNames)
    \/ DoStopTunnel(CreateNames)
    \/ DoDeleteTunnelIn(CreateNames, DocumentAnswers)

SpecKill == InitDocument /\ [][NextKill]_vars

---------------------------------------------------------------------------
(* Properties of the route calls *)

Ingress(fs, name) ==
    IF ConfigName(name) \in DOMAIN fs THEN Get(fs[ConfigName(name)], "ingress", <<>>)
    ELSE <<>>

StateRoutes(st, name) ==
    IF name \in DOMAIN st.tunnels THEN Get(st.tunnels[name], "routes", <<>>) ELSE <<>>

HasRule(fs, name, domain) ==
    \E i \in 1..Len(Ingress(fs, name)) : HostnameOf(Ingress(fs, name)[i]) = domain

WellFormedIngress(ing) ==
    /\ Len(ing) >= 1
    /\ ing[Len(ing)] = CatchAll
    /\ \A i \in 1..(Len(ing) - 1) : IsHostRule(ing[i])
    /\ \A i, j \in 1..(Len(ing) - 1) : i # j => ing[i].hostname # ing[j].hostname

\* C1: every config file written by add_route / remove_route, starting from no
\* config file, holds at most one hostname rule per domain, followed by exactly
\* one catch-all rule, which is the last rule and the only rule without hostname.
C1_IngressWellFormed ==
    \A f \in DOMAIN files : WellFormedIngress(Get(files[f], "ingress", <<>>))

C1_Witness ==
    /\ last.op[1] = "remove_route"
    /\ last.ret = TRUE
    /\ Len(last.before) = 1
    /\ Ingress(files, "demo") = <<CatchAll>>

\* C2: add_route(d, p2) right after add_route(d, p1) on the same tunnel, both
\* returning true, leaves exactly one hostname rule for d in the config and
\* exactly one entry for d in the state's route list, both with the service of p2.
C2_AddRouteReplaces ==
    [][(/\ last.op[1] = "add_route"
        /\ last.ret = TRUE
        /\ last'.op[1] = "add_route"
        /\ last'.ret = TRUE
        /\ last'.op[2] = last.op[2]
        /\ mgr'.tunnel_name = mgr.tunnel_name)
       => LET d == last'.op[2]
              name == mgr'.tunnel_name
              service == ServiceUrl(last'.op[4], last'.op[3])
          IN  /\ SelectSeq(Ingress(files', name), LAMBDA r : HostnameOf(r) = d)
                    = <<HostRule(d, service)>>
              /\ SelectSeq(StateRoutes(state', name), LAMBDA r : r.domain = d)
                    = <<Route(d, service)>>]_vars

C2_Witness ==
    /\ last.op[1] = "add_route"
    /\ last.ret = TRUE
    /\ last.op[3] = 8080
    /\ Len(last.before) = 2
    /\ last.before[2] = Route(last.op[2], ServiceUrl("svc", 3000))
    /\ StateRoutes(state, "demo")[2] = Route(last.op[2], ServiceUrl("svc", 8080))

\* C3: remove_route(d) on a tunnel whose config has no hostname rule for d (or
\* has no config file) returns false, leaves every config file and the state
\* document as they were, and runs no command (no restart).
C3_RemoveAbsentRoute ==
    [][(/\ last'.op[1] = "remove_route"
        /\ ~HasRule(files, Effective(last'.op[3]), last'.op[2]))
       => /\ last'.ret = FALSE
          /\ files' = files
          /\ state' = state
          /\ running' = running
          /\ last'.cmds = <<>>]_vars

C3_Witness ==
    /\ last.op = <<"remove_route", "api.example.com", "demo">>
    /\ last.ret = FALSE
    /\ Len(Ingress(files, "demo")) = 2
    /\ HasRule(files, "demo", "app.example.com")

\* C9 as stated: after create "demo" and add_route(app.example.com, 3000, svc),
\* list_routes returns one entry whose service is "svc:3000".
C9_ScenarioAsStated ==
    [][(/\ last.op = <<"add_route", "app.example.com", 3000, "svc", "demo">>
        /\ last.ret = TRUE
        /\ last.before = <<>>
        /\ last'.op = <<"list_routes", "demo">>)
       => last'.ret = <<Route("app.example.com", "svc:3000")>>]_vars

\* C9: after add_route(app.example.com, 3000, svc) on the empty tunnel "demo",
\* list_routes returns exactly one entry, {domain: app.example.com, service:
\* http://svc:3000}; after remove_route of that only route it returns the empty list.
C9_Scenario ==
    [][/\ (/\ last.op = <<"add_route", "app.example.com", 3000, "svc", "demo">>
           /\ last.ret = TRUE
           /\ last.before = <<>>
           /\ last'.op = <<"list_routes", "demo">>)
          => last'.ret = <<Route("app.example.com", "http://svc:3000")>>
       /\ (/\ last.op = <<"remove_route", "app.example.com", "demo">>
           /\ last.ret = TRUE
           /\ last.before = <<Route("app.example.com", "http://svc:3000")>>
           /\ last'.op = <<"list_routes", "demo">>)
          => last'.ret = <<>>]_vars

C9_Witness ==
    /\ last.op = <<"remove_route", "app.example.com", "demo">>
    /\ last.ret = TRUE
    /\ last.before = <<Route("app.example.com", "http://svc:3000")>>
    /\ ListRoutes(World, "demo") = <<>>

---------------------------------------------------------------------------
(* Properties of the state store *)

\* C4: register(name) leaves one record for name and makes name the current
\* tunnel; when the record already exists (a second call) every record,
\* including the fields of name's record, is left as it was; when it does not,
\* only the record of name is added.
C4_RegisterIdempotent ==
    [][last'.op[1] = "register"
       => LET n == last'.op[2]
          IN  /\ state'.current_tunnel = n
              /\ n \in DOMAIN state'.tunnels
              /\ n \in DOMAIN state.tunnels => state'.tunnels = state.tunnels
              /\ n \notin DOMAIN state.tunnels =>
                    /\ DOMAIN state'.tunnels = DOMAIN state.tunnels \cup {n}
                    /\ \A m \in DOMAIN state.tunnels : state'.tunnels[m] = state.tunnels[m]
                    /\ state'.tunnels[n].routes = <<>>]_vars

C4_Witness ==
    /\ last.op = <<"register", "demo">>
    /\ state.current_tunnel = "demo"
    /\ DOMAIN state.tunnels = {"demo", "legacy"}
    /\ state.tunnels["demo"].routes # <<>>
    /\ state.tunnels["demo"].auto_start = TRUE
    /\ state.tunnels["demo"].created_at < now

---------------------------------------------------------------------------
(* Properties of delete_tunnel *)

AllActive == [i \in 1..MaxRetries |-> "active"]
DeletedName == Effective(last'.op[3])

C6_DeleteGivesUp ==
    [][(last'.op[1] = "delete_tunnel" /\ last'.op[2] = AllActive)
       => /\ last'.ret = FALSE
          /\ Len(SelectSeq(last'.cmds, LAMBDA c : c[1] = "delete")) <= MaxRetries
          /\ DeletedName \in DOMAIN state'.tunnels
          /\ files' = files
          /\ creds' = creds]_vars

C6_Witness ==
    /\ last.op = <<"delete_tunnel", AllActive, "demo">>
    /\ last.ret = FALSE
    /\ Len(SelectSeq(last.cmds, LAMBDA c : c[1] = "delete")) = MaxRetries
    /\ StateRoutes(state, "demo") # <<>>
    /\ ConfigName("demo") \in DOMAIN files
    /\ creds # {}

---------------------------------------------------------------------------
(* Properties of the temporary tunnels *)

TempRecords(tunnels) == {n \in DOMAIN tunnels : IsTemp(tunnels[n])}

\* C7: a create_temp_tunnel call that ends without a URL (its child wrote no
\* line with a URL and exited, or the polling timed out) returns None and
\* leaves the state document, hence its set of records, as it was.
C7_TempWithoutUrl ==
    [][last'.op[1] = "create_temp_tunnel"
       => /\ (/\ last'.ret # "blocked"
              /\ \A i \in 1..Len(last'.op[4].out) : FoundUrl[last'.op[4].out[i]] = NULL)
             => last'.ret = NULL
          /\ last'.ret = NULL
             => /\ state' = state
                /\ TempRecords(state'.tunnels) = TempRecords(state.tunnels)]_vars

C7_Witness ==
    /\ last.op[1] = "create_temp_tunnel"
    /\ last.op[4].fate = "chatters"
    /\ Len(last.op[4].out) = MaxNoise
    /\ last.ret = NULL
    /\ last.op[5] \notin DOMAIN alive
    /\ TempRecords(state.tunnels) = {}

\* C8: list_temp_tunnels unregisters every temp_tunnel record whose tracked
\* process id does not exist any more and does not list it; a temp_tunnel
\* record whose process is alive is listed and stays in the state unchanged.
\* (last.records are the records before the call; the call leaves alive alone.)
C8_ListTempReaps ==
    last.op[1] = "list_temp_tunnels"
    => \A n \in TempRecords(last.records) :
          LET info == last.records[n]
          IN  /\ (TrackedPid(info) # NULL /\ TrackedPid(info) \notin DOMAIN alive)
                 => /\ n \notin DOMAIN state.tunnels
                    /\ info \notin last.ret
              /\ (TrackedPid(info) # NULL /\ TrackedPid(info) \in DOMAIN alive)
                 => /\ n \in DOMAIN state.tunnels
                    /\ state.tunnels[n] = info
                    /\ info \in last.ret

C8_Witness ==
    /\ last.op[1] = "list_temp_tunnels"
    /\ \E n \in TempRecords(last.records) :
          /\ TrackedPid(last.records[n]) \notin DOMAIN alive
          /\ n \notin DOMAIN state.tunnels
    /\ \E n \in TempRecords(last.records) :
          /\ TrackedPid(last.records[n]) \in DOMAIN alive
          /\ n \in DOMAIN state.tunnels
          /\ last.records[n] \in last.ret

---------------------------------------------------------------------------
(* Properties of adopt_tunnel *)

HostRules(config) == SelectSeq(Get(config, "ingress", <<>>), IsHostRule)
FoundConfigs(fs, name) == SelectSeq(PossibleConfigs(name), LAMBDA f : f \in DOMAIN fs)

\* C10: adopt_tunnel(name) of a tunnel the provider lists returns true; when a
\* config file is found whose hostname rules are r1..rn (each with a service),
\* the state's routes of name become exactly r1..rn in file order, without
\* the catch-all; when none is found the record is registered all the same.
C10_AdoptBackfillsRoutes ==
    [][(/\ last'.op[1] = "adopt_tunnel"
        /\ last'.op[2]
        /\ last'.op[3] \in DOMAIN registry)
       => LET name == last'.op[3]
              found == FoundConfigs(files, name)
              rules == HostRules(files[found[1]])
          IN  IF found = <<>>
              THEN last'.ret = TRUE /\ name \in DOMAIN state'.tunnels
              ELSE (\A i \in 1..Len(rules) : "service" \in DOMAIN rules[i])
                   => /\ last'.ret = TRUE
                      /\ Len(StateRoutes(state', name)) = Len(rules)
                      /\ \A i \in 1..Len(rules) :
                            StateRoutes(state', name)[i]
                                = [domain |-> rules[i].hostname,
                                   service |-> rules[i].service]]_vars

C10_Witness ==
    /\ last.op = <<"adopt_tunnel", TRUE, "legacy">>
    /\ last.ret = TRUE
    /\ DOMAIN files = {ConfigName("legacy")}
    /\ "ingress" \in DOMAIN files[ConfigName("legacy")]
    /\ files[ConfigName("legacy")].ingress
          = <<HostRule("api.example.com", "http://svc:8080"),
              HostRule("app.example.com", "http://svc:3000"), CatchAll>>
    /\ StateRoutes(state, "legacy")
          = <<Route("api.example.com", "http://svc:8080"),
              Route("app.example.com", "http://svc:3000")>>

---------------------------------------------------------------------------
(* Properties of the state document *)

\* C11: after any sequence of calls made one at a time (construction,
\* use_tunnel, create, adopt, add and remove route, delete, create, stop and
\* list temporary tunnels) current_tunnel is None or the name of a record,
\* and every name has exactly one record (list_all_tunnels reports it once).
C11_CurrentTunnelExists ==
    /\ state.current_tunnel = NULL \/ state.current_tunnel \in DOMAIN state.tunnels
    /\ \A n \in DOMAIN state.tunnels :
          Cardinality({t \in ListAllTunnels(World) : t.name = n}) = 1

C11_Witness ==
    /\ last.op[1] = "list_temp_tunnels"
    /\ \E n \in TempRecords(last.records) : n \notin DOMAIN state.tunnels
    /\ state.current_tunnel = NULL
    /\ "demo" \in DOMAIN state.tunnels

---------------------------------------------------------------------------
(* Properties of the route lists *)

DomainUnique(routes) ==
    \A i, j \in 1..Len(routes) : routes[i].domain = routes[j].domain => i = j

\* C12: in every state reached by adopt_tunnel (of config files with any
\* hostname rules), the route list of each record has at most one entry per
\* domain.
C12_RoutesDomainUnique ==
    \A n \in DOMAIN state.tunnels : DomainUnique(StateRoutes(state, n))

---------------------------------------------------------------------------
(* Properties of the autostart registrations *)

\* The registration of tunnel n with the platform's autostart strategy is there.
Registered(n) == n \in enabled

\* C13: in every state reached by setup_autostart, remove_autostart, create
\* and delete, a call whose registration commands fail part-way included, a
\* record with auto_start = true has its registration present.
C13_AutoStartRegistered ==
    \A n \in DOMAIN state.tunnels :
        Get(state.tunnels[n], "auto_start", FALSE) = TRUE => Registered(n)

---------------------------------------------------------------------------
(* Properties of the status check *)

\* C14: after _check_tunnel_status(name) on a temp_tunnel record whose tracked
\* process has died, the record is gone from the state.
C14_DeadTempRecordGone ==
    LET name == last.op[2]
    IN  (/\ last.op[1] = "_check_tunnel_status"
         /\ name \in DOMAIN last.records
         /\ IsTemp(last.records[name])
         /\ TrackedPid(last.records[name]) # NULL
         /\ ~ProcessExists(World, TrackedPid(last.records[name])))
        => name \notin DOMAIN state.tunnels

---------------------------------------------------------------------------
(* Properties of add_route without a tunnel name *)

HasRoute(st, name, domain) ==
    \E i \in 1..Len(StateRoutes(st, name)) : StateRoutes(st, name)[i].domain = domain

\* Nothing but tunnel T is created or modified by the step.
OnlyTouches(T) ==
    /\ DOMAIN registry' \subseteq DOMAIN registry \cup {T}
    /\ \A n \in DOMAIN state'.tunnels \ {T} :
           n \in DOMAIN state.tunnels /\ state'.tunnels[n] = state.tunnels[n]
    /\ \A f \in DOMAIN files' \ {ConfigName(T)} :
           f \in DOMAIN files /\ files'[f] = files[f]

\* C15: add_route(d, p) without a tunnel name on a manager bound to T, when it
\* returns true, leaves d in T's config and in T's state route list and
\* creates or modifies no other tunnel; quick_tunnel_setup(T, d, p) returning
\* true leaves T with route d.
C15_AddRouteBoundTunnel ==
    [][(last'.op[1] \in {"add_route_default", "quick_tunnel_setup"} /\ last'.ret = TRUE)
          => /\ HasRule(files', last'.op[4], last'.op[2])
             /\ HasRoute(state', last'.op[4], last'.op[2])
             /\ last'.op[1] = "add_route_default" => OnlyTouches(last'.op[4])]_vars

---------------------------------------------------------------------------
(* Properties of create_tunnel *)

\* The name the create_tunnel call of the step is made for.
CreatedName == Effective(last'.op[2])

RanCreate == \E i \in 1..Len(last'.cmds) : last'.cmds[i] = <<"create", CreatedName>>

\* C16: create_tunnel(name) runs the provider's create command if and only if
\* the provider registry has no tunnel named exactly name; with such a tunnel
\* it returns true, without one it returns false when the command fails.
C16_CreateIffAbsent ==
    [][last'.op[1] = "create_tunnel"
          => /\ RanCreate <=> CreatedName \notin DOMAIN registry
             /\ CreatedName \in DOMAIN registry => last'.ret = TRUE
             /\ (CreatedName \notin DOMAIN registry /\ CreatedName \notin DOMAIN registry')
                    => last'.ret = FALSE]_vars

---------------------------------------------------------------------------
(* Properties of add_route's result *)

\* The tunnel the add_route call of the last step was made for.
RoutedName == Effective(last.op[5])

DnsFailed == \E i \in 1..Len(last.cmds) : last.cmds[i][1] = "dns-failed"

\* A restart of the tunnel was run after the DNS-record command.
RestartedAfterDns ==
    \E i, j \in 1..Len(last.cmds) :
        /\ i < j
        /\ last.cmds[i][1] \in {"dns", "dns-failed"}
        /\ last.cmds[j] \in {<<"run", RoutedName>>, <<"svc-restart", RoutedName>>}

\* C17: add_route returns false only when the tunnel could not be created or
\* resolved; when the DNS-record command fails after everything before it
\* succeeded, add_route returns true, the route is in the config file and in
\* the state's route list, and the restart is still run.
C17_DnsFailureTolerated ==
    last.op[1] = "add_route"
        => /\ last.ret = FALSE => (RoutedName = NULL \/ RoutedName \notin DOMAIN registry)
           /\ DnsFailed => /\ last.ret = TRUE
                            /\ HasRule(files, RoutedName, last.op[2])
                            /\ HasRoute(state, RoutedName, last.op[2])
                            /\ RestartedAfterDns

C17_Witness ==
    /\ last.op[1] = "add_route"
    /\ DnsFailed
    /\ last.ret = TRUE
    /\ Len(StateRoutes(state, "demo")) = 2

---------------------------------------------------------------------------
(* Properties of stop_temp_tunnel *)

\* The records stop_temp_tunnel(url) is to stop: the temporary ones, with the
\* given temp_url when a url is given.
ToStop(records, url) ==
    {n \in DOMAIN records :
        /\ IsTemp(records[n])
        /\ url = NULL \/ Get(records[n], "temp_url", NULL) = url}

\* C18: stop_temp_tunnel(url) terminates and unregisters the temporary records
\* whose temp_url is url, or all of them without a url, whether their process
\* is still there or not; every other record is unchanged and the process of
\* every other temporary record is untouched.
C18_StopOnlyChosen ==
    last.op[1] = "stop_temp_tunnel"
        => \A n \in DOMAIN last.records :
              IF n \in ToStop(last.records, last.op[2])
              THEN /\ n \notin DOMAIN state.tunnels
                   /\ TrackedPid(last.records[n]) \notin DOMAIN alive
              ELSE /\ n \in DOMAIN state.tunnels
                   /\ state.tunnels[n] = last.records[n]
                   /\ (IsTemp(last.records[n])
                          /\ TrackedPid(last.records[n]) \in last.procs)
                        => TrackedPid(last.records[n]) \in DOMAIN alive

---------------------------------------------------------------------------
(* Properties of loading the state *)

\* C19: whatever the state file holds (nothing, text that is not JSON, JSON
\* without the tunnels mapping), loading it yields a state with the tunnels
\* mapping and no register, update or unregister call ends with an exception.
C19_LoadNeverRaises ==
    /\ "tunnels" \in DOMAIN LoadStateFrom(state)
    /\ last.op[1] \in {"register", "update", "unregister"} => last.ret # "KeyError"

---------------------------------------------------------------------------
(* Properties of interrupted calls *)

\* The process id of the child the last call spawned.
SpawnedPid ==
    IF last.op[1] = "run_command_live" THEN last.op[2] ELSE last.op[5]

\* C20: when a KeyboardInterrupt leaves run_command_live or create_temp_tunnel,
\* the child the call spawned has been terminated.
C20_InterruptTerminatesChild ==
    (/\ last.op[1] \in {"run_command_live", "create_temp_tunnel"}
     /\ last.ret = "KeyboardInterrupt")
        => SpawnedPid \notin DOMAIN alive

---------------------------------------------------------------------------
\* C21: list_all_tunnels returns exactly one entry per local record, an entry
\* has exists = TRUE iff the provider's registry lists a tunnel of that name,
\* and a provider tunnel without a local record is not among the entries.
C21_ListAllCrossReferences ==
    last.op[1] = "list_all_tunnels"
        => /\ {t.name : t \in last.ret} = DOMAIN state.tunnels
           /\ \A n \in DOMAIN state.tunnels :
                 Cardinality({t \in last.ret : t.name = n}) = 1
           /\ \A t \in last.ret : t.exists <=> t.name \in DOMAIN registry

---------------------------------------------------------------------------
\* C22: remove_autostart called for a tunnel whose unit, cron line, agent or
\* task does not exist (and that has no generated file) reports success, and
\* afterwards the record has auto_start = false and no generated file remains.
C22_RemoveAbsentTolerated ==
    (/\ last.op[1] = "remove_autostart"
     /\ ~last.auto.registered
     /\ ~last.auto.artifact)
    => /\ last.ret = TRUE
       /\ Get(state.tunnels[mgr.tunnel_name], "auto_start", FALSE) = FALSE
       /\ mgr.tunnel_name \notin artifacts

---------------------------------------------------------------------------
\* C23: when setup_autostart of a tunnel with nothing registered and auto_start
\* not set fails (the binary is not found, or a registration command fails at
\* any step; the Windows strategy looks up no binary), it returns false, the
\* record's auto_start is not true, no generated unit file or script remains
\* and check_autostart_status reports the tunnel as not registered.
C23_SetupFailureLeavesNothing ==
    (/\ last.op[1] = "setup_autostart"
     /\ last.op[2] # "none"
     /\ ~(platform = "taskscheduler" /\ last.op[2] = "binary")
     /\ ~last.auto.registered
     /\ ~last.auto.artifact
     /\ ~last.auto.auto_start)
    => /\ last.ret = FALSE
       /\ Get(state.tunnels[mgr.tunnel_name], "auto_start", FALSE) # TRUE
       /\ mgr.tunnel_name \notin artifacts
       /\ ~CheckAutostartStatus(World)

---------------------------------------------------------------------------
(* Properties of stopping and restarting *)

\* The commands of the last call that act on a registered service.
ServiceCmds == {i \in 1..Len(last.cmds) : last.cmds[i][1] \in {"svc-stop", "svc-restart"}}
\* The commands of the last call that act on manual processes.
ManualCmds == {i \in 1..Len(last.cmds) : last.cmds[i][1] \in {"pkill", "run"}}

\* C24: a stop_tunnel that reports the tunnel stopped has issued a stop
\* action: through the service mechanism when the record has auto_start (on
\* each of the four strategies), by killing the matching manual processes
\* when it has not.
C24_StopIssuesStop ==
    (last.op[1] = "stop_tunnel" /\ last.ret = "Tunnel stopped")
    => LET name == Effective(last.op[3])
       IN  IF Get(Get(state.tunnels, name, EmptyDict), "auto_start", FALSE) = TRUE
           THEN ServiceCmds # {} /\ ManualCmds = {}
           ELSE last.cmds = <<<<"pkill", name>>>>

\* C27: _restart_tunnel restarts a tunnel whose autostart is registered (on
\* any of the four strategies) only through the service mechanism, without
\* killing and relaunching a manual process; a tunnel without registration
\* has its matching manual processes killed and exactly one detached process
\* launched on the instance's config.
C27_RestartThroughService ==
    last.op[1] = "_restart_tunnel"
    => IF CheckAutostartStatus(World)
       THEN ServiceCmds # {} /\ ManualCmds = {}
       ELSE /\ last.cmds = <<<<"pkill", mgr.tunnel_name>>, <<"run", mgr.tunnel_name>>>>
            /\ mgr.tunnel_name \in running

---------------------------------------------------------------------------
(* Properties of concurrent state-store calls *)

\* Every instance has returned from its _register_tunnel.
AllReturned == \A i \in Instances : inst[i].pc = "done"
\* The update of instance i is not in the persisted state.
Lost(i) == inst[i].name \notin DOMAIN state.tunnels

\* C25: two instances that each load and then save can lose an update that
\* completed and returned. Once both have returned, the state holds the record
\* of the instance that saved last, and the record of the other is missing
\* only if the last one had loaded a document without it: the update is lost
\* to an overlapping load-then-save, which nothing excludes.
C25_LostUpdateByOverlap ==
    AllReturned
    => /\ ~Lost(last.op[2])
       /\ \A i, j \in Instances :
             (Lost(i) /\ j # i)
             => /\ last.op = <<"dump", j>>
                /\ inst[i].name \notin DOMAIN inst[j].loaded.tunnels

\* register(a) in one instance and register(b) in the other have both returned
\* and the persisted state holds only one of the two records.
C25_Witness ==
    /\ AllReturned
    /\ inst[1].name # inst[2].name
    /\ \E i \in Instances : Lost(i)
    /\ \E i \in Instances : ~Lost(i)

\* C26: a load that overlaps the save of another instance returns a document
\* that was saved (the one before the save or the one after it), never the
\* empty default state; so no instance writes back a state from which the
\* record that was there before the calls began has disappeared.
C26_SaveAtomic ==
    /\ \A i \in Instances :
          inst[i].pc # "idle" => "last_updated" \in DOMAIN inst[i].loaded
    /\ (mgr.tunnel_name = "old" /\ state \notin Unreadable)
          => "old" \in DOMAIN state.tunnels

---------------------------------------------------------------------------
\* C28: whenever create_temp_tunnel returns None after it spawned the child
\* (timeout, early exit of the child, or an error raised after the spawn), the
\* child is no longer running: it has exited or was sent the terminate signal.
C28_NoneMeansChildGone ==
    (/\ last.op[1] = "create_temp_tunnel"
     /\ last.op[4].fate # "unspawned"
     /\ last.ret = NULL)
    => last.op[5] \notin DOMAIN alive

---------------------------------------------------------------------------
(* Properties of the login status record *)

\* The values the last call wrote to the status record, in order.
StatusWritten ==
    LET written == SelectSeq(last.cmds, LAMBDA c : c[1] = "status")
    IN  [i \in 1..Len(written) |-> written[i][2]]

\* C30: during a run of run_command_live the status record only takes the
\* values starting, url_found, completed, error and manually_stopped; the
\* first value written is starting; and when the child's output ends without
\* interrupt or exception, the last value written is completed iff the child
\* exited with code 0.
C30_StatusValues ==
    last.op[1] = "run_command_live"
    => /\ \A i \in 1..Len(StatusWritten) :
             StatusWritten[i] \in {"starting", "url_found", "completed", "error",
                                   "manually_stopped"}
       /\ StatusWritten[1] = "starting"
       /\ last.op[3].end \in {"exit0", "exit1"}
             => (StatusWritten[Len(StatusWritten)] = "completed"
                   <=> last.op[3].end = "exit0")

---------------------------------------------------------------------------
\* C29: create_temp_tunnel always eventually returns (a URL or None), also
\* when the child stays alive and never writes a line, or writes lines
\* without a URL.
C29_AlwaysReturns == (inst[1].pc = "polling") ~> (inst[1].pc = "returned")

---------------------------------------------------------------------------
(* Properties of the state's route list against the config file *)

\* C31: after any sequence of add_route, remove_route and adopt_tunnel calls
\* on a tunnel, made one at a time, the state's route list of the tunnel is,
\* entry for entry and in the same order, the (hostname, service) pairs of
\* the hostname rules of the tunnel's config file.
C31_RoutesMirrorConfig ==
    (last.op[1] \in {"add_route", "remove_route", "adopt_tunnel"})
        => \A n \in DOMAIN state.tunnels :
              LET rules == HostRules(Get(files, ConfigName(n), EmptyDict))
                  routes == StateRoutes(state, n)
              IN  /\ Len(routes) = Len(rules)
                  /\ \A i \in 1..Len(rules) :
                        /\ routes[i].domain = HostnameOf(rules[i])
                        /\ routes[i].service = ServiceOf(rules[i])

---------------------------------------------------------------------------
(* Properties of the current-tunnel pointer *)

\* C32: delete_tunnel(name) for a name that is not the state's current_tunnel
\* leaves current_tunnel as it was, whether it returns true or false.
C32_DeleteKeepsCurrent ==
    [][(/\ last'.op[1] = "delete_tunnel"
        /\ Effective(last'.op[3]) # NULL
        /\ Effective(last'.op[3]) # state.current_tunnel)
       => state'.current_tunnel = state.current_tunnel]_vars

---------------------------------------------------------------------------
(* Properties of the manager instance *)

\* C33: after every public operation of a manager instance returns
\* (delete_tunnel returning false or deleting another tunnel than the bound
\* one included), the instance's config_file is config-<tunnel_name>.yml of
\* its tunnel_name, or both are unset.
C33_ConfigFileOfBoundTunnel ==
    IF mgr.tunnel_name = NULL THEN mgr.config_file = NULL
    ELSE mgr.config_file = ConfigName(mgr.tunnel_name)

---------------------------------------------------------------------------
(* Properties of adopt_tunnel on a tunnel that has its config file *)

\* C34: adopt_tunnel(name) never overwrites an existing config-<name>.yml
\* with another candidate: the file is left unchanged, and the routes
\* back-filled into the state are its hostname rules, whether or not
\* config.yml or <name>.yml exist as well.
C34_AdoptKeepsCanonical ==
    [][(/\ last'.op[1] = "adopt_tunnel"
        /\ ConfigName(last'.op[3]) \in DOMAIN files)
       => LET name == last'.op[3]
              rules == HostRules(files[ConfigName(name)])
              routes == StateRoutes(state', name)
          IN  /\ ConfigName(name) \in DOMAIN files'
              /\ files'[ConfigName(name)] = files[ConfigName(name)]
              /\ last'.ret = TRUE
                    => /\ Len(routes) = Len(rules)
                       /\ \A i \in 1..Len(rules) :
                             /\ routes[i].domain = HostnameOf(rules[i])
                             /\ routes[i].service = ServiceOf(rules[i])]_vars

---------------------------------------------------------------------------
(* Properties of the temporary tunnels next to the permanent ones *)

\* C35: create_temp_tunnel, stop_temp_tunnel and list_temp_tunnels leave the
\* state's current_tunnel unchanged whenever it pointed at a tunnel that is
\* not temporary.
C35_TempKeepsCurrent ==
    [][(/\ last'.op[1] \in {"create_temp_tunnel", "stop_temp_tunnel", "list_temp_tunnels"}
        /\ state.current_tunnel \in DOMAIN state.tunnels
        /\ ~IsTemp(state.tunnels[state.current_tunnel]))
       => state'.current_tunnel = state.current_tunnel]_vars

\* C36: every create_temp_tunnel call that returns a URL gets its own
\* transient record: after successful calls, however close in time, every
\* child that is alive is the temp_process_id of a record with
\* temp_tunnel = true, so that stop_temp_tunnel can reach it.
C36_EachTempOwnRecord ==
    (last.op[1] = "create_temp_tunnel" /\ last.ret \notin {NULL, "blocked"})
        => \A p \in DOMAIN alive :
              \E n \in DOMAIN state.tunnels :
                  IsTemp(state.tunnels[n]) /\ TrackedPid(state.tunnels[n]) = p

---------------------------------------------------------------------------
(* Properties of the processes of other tunnels *)

\* C37: stopping, restarting or deleting tunnel X (every step of delete's
\* retry path included) never terminates the run process of another tunnel
\* Y, also when X's name is part of Y's, nor the process of a temporary
\* tunnel.
C37_OtherProcessesSurvive ==
    [][(last'.op[1] \in {"stop_tunnel", "_restart_tunnel", "delete_tunnel"})
       => LET X == IF last'.op[1] = "_restart_tunnel" THEN mgr.tunnel_name
                   ELSE Effective(last'.op[3])
          IN  /\ \A Y \in running \ {X} : Y \in running'
              /\ \A p \in DOMAIN alive : p \in DOMAIN alive']_vars

---------------------------------------------------------------------------
(* Properties of use_tunnel next to an unregister *)

\* C38: under any interleaving of two instances, use_tunnel(X) in one and
\* an unregister of X in the other never leave the persisted state with
\* current_tunnel = X while X is not a key of tunnels.
C38_CurrentExistsUnderRace ==
    \A X \in RaceNames : state.current_tunnel = X => X \in DOMAIN state.tunnels

---------------------------------------------------------------------------
(* Properties of concurrent add_route calls *)

\* C39: when two instances call add_route on the same tunnel for different
\* domains at the same time and both return true, then under every
\* interleaving the config file holds a hostname rule for both domains with
\* one trailing catch-all, and the state's route list holds both domains and
\* agrees with the config.
C39_ConcurrentAddsBothKept ==
    (/\ \A i \in Instances : inst[i].pc = "added"
     /\ inst[1].name = inst[2].name
     /\ inst[1].domain # inst[2].domain)
    => LET name == inst[1].name
           rules == HostRules(Get(files, ConfigName(name), EmptyDict))
           routes == StateRoutes(state, name)
       IN  /\ \A i \in Instances : HasRule(files, name, inst[i].domain)
           /\ WellFormedIngress(Ingress(files, name))
           /\ \A i \in Instances :
                 \E k \in 1..Len(routes) : routes[k].domain = inst[i].domain
           /\ {<<routes[k].domain, routes[k].service>> : k \in 1..Len(routes)}
                 = {<<rules[k].hostname, rules[k].service>> : k \in 1..Len(rules)}

---------------------------------------------------------------------------
(* Properties of _update_tunnel_info *)

\* C40: update(name, fields) for a name with no record leaves the persisted
\* document unchanged (no record is created, last_updated is not rewritten);
\* for a name with a record it changes only the given fields of that record
\* and leaves every other record and current_tunnel unchanged.
C40_UpdateOnlyGivenFields ==
    [][last'.op[1] = "update"
       => LET name == last'.op[2]
              fields == last'.op[3]
          IN  IF name \notin DOMAIN state.tunnels THEN state' = state
              ELSE /\ DOMAIN state'.tunnels = DOMAIN state.tunnels
                   /\ \A n \in DOMAIN state.tunnels \ {name} :
                         state'.tunnels[n] = state.tunnels[n]
                   /\ state'.current_tunnel = state.current_tunnel
                   /\ DOMAIN state'.tunnels[name]
                         = DOMAIN state.tunnels[name] \cup DOMAIN fields
                   /\ \A k \in DOMAIN state'.tunnels[name] :
                         state'.tunnels[name][k]
                             = IF k \in DOMAIN fields THEN fields[k]
                               ELSE state.tunnels[name][k]]_vars

\* update("demo", {auto_start: true}) was made on a state that also holds the
\* record of "legacy", the current tunnel, after the clock had advanced.
C40_Witness ==
    /\ last.op[1] = "update"
    /\ last.op[2] = "demo"
    /\ DOMAIN last.op[3] = {"auto_start"}
    /\ DOMAIN state.tunnels = {"demo", "legacy"}
    /\ state.tunnels["demo"].auto_start = TRUE
    /\ state.tunnels["demo"].routes # <<>>
    /\ state.current_tunnel = "legacy"
    /\ state.tunnels["demo"].created_at < state.last_updated

====
